---------------------------- MODULE Spec2Model ----------------------------
(***************************************************************************)
(* A model of the ingestion-and-evaluation pipeline of                     *)
(* security_questionnaire_responder.py: the upload cache and the upload    *)
(* coordinator, the retry wrappers, the web crawler and the two-pass       *)
(* evaluation dispatcher.  Each stage has its own specification over the   *)
(* shared variables; a stage's actions leave the other stages' variables   *)
(* unchanged.                                                              *)
(***************************************************************************)
EXTENDS Integers, Sequences, FiniteSets, TLC

VARIABLES
    \* ---- configuration (module-level constants of the program) ----
    PERSIST_UPLOADS,   \* line 85
    MAX_WORKERS,       \* line 83
    \* ---- the world the upload stage sees ----
    docs,              \* the documents _find_doc_paths finds in DOCS_DIR
    content,           \* bytes of each document in DOCS_DIR
    expired,           \* uploaded artifacts whose remote state is no longer ACTIVE
    diskCache,         \* the file UPLOAD_CACHE_FILE
    tmpFile,           \* the file UPLOAD_CACHE_FILE + ".tmp"
    \* ---- state of one run of prepare_gemini_files/_upload_pdfs ----
    run,               \* number of the current run of the program
    upc,               \* position of the main thread
    tmpName,           \* name of the temporary .txt made for each markdown file
    upload_cache,      \* the dict shared by the workers and the main thread
    cache_updated,
    task,              \* one future per submitted path
    collected,         \* futures the as_completed loop has handled
    uploaded,          \* the list `uploaded` (as the set of files in it)
    uploadCalls,       \* genai.upload_file calls per file in this run
    \* ---- history variables (not program state) ----
    loadedCache,       \* what _load_upload_cache returned in this run
    prevKey,           \* the cache key each file had in the previous run
    runContent,        \* the bytes each file had when this run started
    prevContent,       \* the bytes each file had in the previous run
    evicted,           \* files whose cached handle could not be confirmed
    diskBeforeSave,    \* the cache file when _save_upload_cache was entered
    crashed,           \* the previous run was killed inside _save_upload_cache
    cache_changed_by,  \* files whose own task changed upload_cache in this run
    \* ---- one call of generate_with_retry or update_cell_with_retry ----
    rt,                \* the wrapper's locals and what it has done so far
    \* ---- one call of fetch_website_content(url, crawl=True, max_pages) ----
    robots,            \* what the site's robots.txt gave the RobotFileParser
    start_url,
    max_pages,
    cpc,               \* position in crawl_website / fetch_website_content
    to_visit,
    visited,
    all_urls,
    crawlResult,       \* the list crawl_website returned
    crawlFetched,      \* URLs get_links_from_page requested
    skips,             \* URLs popped and skipped as disallowed (a count)
    urls_to_fetch,     \* URLs the extraction loop still has to request
    extractFetched,    \* URLs the extraction loop requested
    all_content,       \* URLs whose page record was collected
    links_seen,        \* every link get_links_from_page has returned
    depth,             \* fewest links from the start URL found so far, per URL
    fetch_failed,      \* URLs whose request in get_links_from_page failed
    offsite_seen,      \* a fetched page held a link to another host
    \* ---- one evaluation run of process_requirements ----
    pool,              \* the executor's max_workers
    epc,               \* position of the main thread
    rows_batch,        \* rows_batch of each call of process_batch
    fut,               \* the futures of each pass
    handled,           \* rows whose future the main thread has handled
    cell,              \* the compliance cell of each row
    needs_second_pass, \* the list process_batch builds in pass 1
    abort,             \* what ended process_batch early, if anything
    VERIFY_WRITES,     \* line 84
    sheet_calls,       \* per row, the worksheet calls process_batch issued
    requirement_text,  \* the requirement cell of each row
    \* ---- one call of a function that keeps no state ----
    fn,                \* the function applied, its arguments and its result
    \* ---- one call of _wait_for_files_active ----
    wpc,               \* position in _wait_for_files_active
    uploaded_files,    \* the handles passed in
    pending_files,
    active_files,
    failed_files,
    files_to_check,    \* what the for loop of one round has still to query
    timed_out,         \* time.time() - start_time has reached timeout_seconds
    observed,          \* per handle, the states its status queries returned
    pending_at_deadline, \* the handles pending when the timeout elapsed
    poll_state,        \* poll_interval and next_check of each pending handle
    \* ---- one call of prepare_gemini_files ----
    SOURCES,           \* 'both', 'website' or 'docs'
    WEBSITE_URLS,
    docs_found,        \* _find_doc_paths(DOCS_DIR) returned some path
    ppc,               \* position in prepare_gemini_files
    all_files,
    website_files,
    \* ---- one ThreadPoolExecutor block (line 384 or line 1330) ----
    executor           \* the call site, the setting and each task's state

uvars == <<PERSIST_UPLOADS, MAX_WORKERS, docs, content, expired, diskCache, tmpFile,
           run, upc, tmpName, upload_cache, cache_updated, task, collected,
           uploaded, uploadCalls, loadedCache, prevKey, runContent, prevContent,
           evicted, diskBeforeSave, crashed, cache_changed_by>>

rvars == <<rt>>

cvars == <<robots, start_url, max_pages, cpc, to_visit, visited, all_urls,
           crawlResult, crawlFetched, skips, urls_to_fetch, extractFetched,
           all_content, links_seen, depth, fetch_failed, offsite_seen>>

\* What the crawler's actions record about the past.
chist == <<depth, fetch_failed, offsite_seen>>

evars == <<pool, epc, rows_batch, fut, handled, cell, needs_second_pass, abort,
           VERIFY_WRITES, sheet_calls, requirement_text>>

fvars == <<fn>>

wvars == <<wpc, uploaded_files, pending_files, active_files, failed_files,
           files_to_check, timed_out, observed, pending_at_deadline,
           poll_state>>

pvars == <<SOURCES, WEBSITE_URLS, docs_found, ppc, all_files, website_files>>

xvars == <<executor>>

vars == <<uvars, rvars, cvars, evars, fvars, wvars, pvars, xvars>>

\* What the actions of each stage leave unchanged.
notU == <<rvars, cvars, evars, fvars, wvars, pvars, xvars>>
notR == <<uvars, cvars, evars, fvars, wvars, pvars, xvars>>
notC == <<uvars, rvars, evars, fvars, wvars, pvars, xvars>>
notE == <<uvars, rvars, cvars, fvars, wvars, pvars, xvars>>
notF == <<uvars, rvars, cvars, evars, wvars, pvars, xvars>>
notP == <<uvars, rvars, cvars, evars, fvars, xvars>>
notW == <<uvars, rvars, cvars, evars, fvars, pvars, xvars>>
notX == <<uvars, rvars, cvars, evars, fvars, wvars, pvars>>

---------------------------------------------------------------------------
\* Bounds of the model.
MaxRuns == 2

\* Largest max_attempts tried for the retry wrappers.
MaxAttemptsBound == 5

\* Largest page budget (max_pages) tried for the crawler.
MaxPagesBound == 3

\* The count of skipped pops is kept up to this value.
MaxSkips == 3

\* Requirement rows of the sheet.
NumRows == 2

\* Longest file (in bytes) given to _get_file_fingerprint, and the bytes one
\* f.read takes (8192 in the program).
MaxFileLen == 3
ChunkBytes == 2

\* Tasks submitted to one executor.
NumTasks == 5

\* Uploaded handles given to the activation poller.
NumHandles == 2

\* Longest column (header included) read from the sheet.
MaxColLen == 3

Max(a, b) == IF a >= b THEN a ELSE b
Min(a, b) == IF a <= b THEN a ELSE b

\* Worker counts tried for GEMINI_MAX_WORKERS (default '8').
WorkerChoices == {1, 8}

---------------------------------------------------------------------------
\* The documents _find_doc_paths discovers, in sorted order.  f1 and f2 are
\* two files with the same name in different directories; f3 is markdown.
FileOrder == <<"f1", "f2", "f3">>
Files == {FileOrder[i] : i \in 1..Len(FileOrder)}
IsMarkdown(f) == f = "f3"
BaseName(f) == IF IsMarkdown(f) THEN "notes.md" ELSE "a.pdf"

\* Byte contents a document can have; "huge" is larger than 20 MB.
AllowedContent(f) ==
    CASE f = "f1" -> {"a", "b"}
      [] f = "f2" -> {"a", "huge"}
      [] OTHER    -> {"a", "b"}

\* The contents of DOCS_DIR the model tries.
DocSets == {{"f1", "f3"}, {"f1", "f2"}}

\* Names tempfile.NamedTemporaryFile can give (random in reality).
TempNames == {"tmpA.txt", "tmpB.txt"}

\* The names the n-th run can be given: the first run's name is called
\* tmpA.txt, a later run gets that name again or another one.
TempNamesOfRun(n) == IF n = 1 THEN {"tmpA.txt"} ELSE TempNames

NoHandle == <<"none", 0>>
NoKey == <<"none", "none">>
Handle == Files \X (0..MaxRuns)

FileSizeOver20MB(bytes) == bytes = "huge"

\* prepare_gemini_files writes f"# {path.name}\n\n{content}" to the temp file.
TempBytes(f, c) == "# notes.md|" \o c

\* The path handed to _upload_single_file and the bytes at that path.
UploadName(f, names) == IF IsMarkdown(f) THEN names[f] ELSE BaseName(f)
UploadBytes(f, c) == IF IsMarkdown(f) THEN TempBytes(f, c) ELSE c

\* hashlib.md5 over the whole content: equal bytes give equal digests and
\* different bytes different ones.
_get_file_fingerprint(bytes) == <<"md5", bytes>>

CacheKey(name, fp) == <<name, fp[2]>>

\* A dict as a set of <<key, value>> pairs with at most one pair per key.
DictHas(d, k) == \E e \in d : e[1] = k
DictGet(d, k) == IF DictHas(d, k) THEN (CHOOSE e \in d : e[1] = k)[2] ELSE NoHandle
DictDel(d, k) == {e \in d : e[1] # k}
DictSet(d, k, v) == DictDel(d, k) \cup {<<k, v>>}

\* A file on disk: absent, holding broken JSON, or holding a mapping.
AbsentFile == [st |-> "absent", map |-> {}]
CorruptFile == [st |-> "corrupt", map |-> {}]
JsonFile(d) == [st |-> "ok", map |-> d]

\* _load_upload_cache: {} when persistence is off, the file is missing or
\* the JSON does not parse; the mapping otherwise.
_load_upload_cache(persist, file) ==
    IF ~persist THEN {}
    ELSE IF file.st = "ok" THEN file.map ELSE {}

---------------------------------------------------------------------------
\* ======================  Upload cache and coordinator  ==================

NoTask == [pc |-> "none", key |-> NoKey, res |-> NoHandle]

\* The cap of line 378 left out.
UploadMaxWorkersUncapped(mw) == mw

\* max_workers = min(MAX_WORKERS, 4), line 378.
UploadMaxWorkers(mw) == IF mw < 4 THEN mw ELSE 4

UploadPoolSize == UploadMaxWorkers(MAX_WORKERS)

Running == {f \in Files : task[f].pc \in {"check", "evict", "upload"}}

\* The executor's work queue is first-in first-out.
FirstQueued(f) ==
    \E i \in 1..Len(FileOrder) :
        /\ FileOrder[i] = f
        /\ task[f].pc = "queued"
        /\ \A j \in 1..(i - 1) : task[FileOrder[j]].pc # "queued"

TaskKey(f) ==
    CacheKey(UploadName(f, tmpName),
             _get_file_fingerprint(UploadBytes(f, content[f])))

\* The size test of lines 313-316 left out.
AfterCacheMissNoCeiling(t, bytes) == [t EXCEPT !.pc = "upload"]

\* Lines 313-322 of _upload_single_file: the size ceiling, then the MIME
\* lookup (every discovered suffix, and .txt, is in ext_to_mime).
AfterCacheMiss(t, bytes) ==
    IF FileSizeOver20MB(bytes)
    THEN [t EXCEPT !.pc = "done", !.res = NoHandle]
    ELSE [t EXCEPT !.pc = "upload"]

\* The cache file an earlier run leaves behind when DOCS_DIR held a.pdf with
\* bytes "a": one entry, "a.pdf:<md5>" -> the id of the artifact uploaded then.
EarlierCacheFile ==
    JsonFile({<<CacheKey("a.pdf", _get_file_fingerprint("a")), <<"f1", 0>>>>})

UInit ==
    /\ PERSIST_UPLOADS \in BOOLEAN
    /\ MAX_WORKERS \in WorkerChoices
    /\ docs \in DocSets
    /\ content = [f \in Files |-> "a"]
    /\ expired = {}
    /\ diskCache \in {AbsentFile, EarlierCacheFile}
    /\ tmpFile = AbsentFile
    /\ run = 0
    /\ upc = "idle"
    /\ tmpName = [f \in Files |-> "tmpA.txt"]
    /\ upload_cache = {}
    /\ cache_updated = FALSE
    /\ task = [f \in Files |-> NoTask]
    /\ collected = {}
    /\ uploaded = {}
    /\ uploadCalls = [f \in Files |-> 0]
    /\ loadedCache = {}
    /\ prevKey = [f \in Files |-> NoKey]
    /\ runContent = [f \in Files |-> "a"]
    /\ prevContent = [f \in Files |-> "a"]
    /\ evicted = {}
    /\ diskBeforeSave = AbsentFile
    /\ crashed = FALSE
    /\ cache_changed_by = {}

\* Between two runs a document may be edited ...
EditFile(f) ==
    /\ upc = "idle"
    /\ run >= 1
    /\ run < MaxRuns
    /\ f \in docs
    /\ \E c \in AllowedContent(f) \ {content[f]} :
           content' = [content EXCEPT ![f] = c]
    /\ UNCHANGED cache_changed_by
    /\ UNCHANGED <<PERSIST_UPLOADS, MAX_WORKERS, docs, expired, diskCache, tmpFile,
                   run, upc, tmpName, upload_cache, cache_updated, task,
                   collected, uploaded, uploadCalls, loadedCache, prevKey,
                   runContent, prevContent, evicted, diskBeforeSave, crashed>>

\* ... and a remote artifact the cache file names may expire or fail.
ExpireHandle(h) ==
    /\ upc = "idle"
    /\ run >= 1
    /\ run < MaxRuns
    /\ h \notin expired
    /\ \E e \in diskCache.map : e[2] = h
    /\ expired' = expired \cup {h}
    /\ UNCHANGED cache_changed_by
    /\ UNCHANGED <<PERSIST_UPLOADS, MAX_WORKERS, docs, content, diskCache, tmpFile,
                   run, upc, tmpName, upload_cache, cache_updated, task,
                   collected, uploaded, uploadCalls, loadedCache, prevKey,
                   runContent, prevContent, evicted, diskBeforeSave, crashed>>

\* prepare_gemini_files up to the submission of the futures in _upload_pdfs:
\* markdown files are copied to fresh temporary files, the cache is loaded
\* and one task per path is submitted.
StartRun ==
    /\ upc = "idle"
    /\ run < MaxRuns
    /\ run' = run + 1
    /\ \E n \in TempNamesOfRun(run + 1) :
         tmpName' = [f \in Files |->
                        IF \E g \in docs : IsMarkdown(g) THEN n ELSE "tmpA.txt"]
    /\ upload_cache' = _load_upload_cache(PERSIST_UPLOADS, diskCache)
    /\ loadedCache' = _load_upload_cache(PERSIST_UPLOADS, diskCache)
    /\ cache_updated' = FALSE
    /\ task' = [f \in Files |->
                   IF f \in docs THEN [NoTask EXCEPT !.pc = "queued"] ELSE NoTask]
    /\ collected' = {}
    /\ uploaded' = {}
    /\ uploadCalls' = [f \in Files |-> 0]
    /\ runContent' = content
    /\ evicted' = {}
    /\ cache_changed_by' = {}
    /\ upc' = "collect"
    /\ UNCHANGED <<PERSIST_UPLOADS, MAX_WORKERS, docs, content, expired, diskCache,
                   tmpFile, prevKey, prevContent, diskBeforeSave, crashed>>

\* A pool thread takes the next queued task and runs _upload_single_file up
\* to the cache lookup of line 294.
TaskStart(f) ==
    /\ FirstQueued(f)
    /\ Cardinality(Running) < UploadPoolSize
    /\ LET k == TaskKey(f)
           t == [task[f] EXCEPT !.key = k]
       IN  task' = [task EXCEPT ![f] =
                IF DictHas(upload_cache, k)
                THEN [t EXCEPT !.pc = "check"]
                ELSE AfterCacheMiss(t, UploadBytes(f, content[f]))]
    /\ UNCHANGED cache_changed_by
    /\ UNCHANGED <<PERSIST_UPLOADS, MAX_WORKERS, docs, content, expired, diskCache,
                   tmpFile, run, upc, tmpName, upload_cache, cache_updated,
                   collected, uploaded, uploadCalls, loadedCache, prevKey,
                   runContent, prevContent, evicted, diskBeforeSave, crashed>>

\* Lines 296-302: genai.get_file on the cached handle.  The handle is read
\* from the dict again (a KeyError if another thread removed the key); the
\* query returns the remote state or raises.
TaskCheck(f) ==
    /\ task[f].pc = "check"
    /\ LET h == DictGet(upload_cache, task[f].key)
       IN  \E raises \in BOOLEAN :
             IF h # NoHandle /\ ~raises /\ h \notin expired
             THEN /\ task' = [task EXCEPT ![f].pc = "done", ![f].res = h]
                  /\ evicted' = evicted
             ELSE /\ task' = [task EXCEPT ![f].pc = "evict"]
                  /\ evicted' = evicted \cup {f}
    /\ UNCHANGED cache_changed_by
    /\ UNCHANGED <<PERSIST_UPLOADS, MAX_WORKERS, docs, content, expired, diskCache,
                   tmpFile, run, upc, tmpName, upload_cache, cache_updated,
                   collected, uploaded, uploadCalls, loadedCache, prevKey,
                   runContent, prevContent, diskBeforeSave, crashed>>

\* Lines 303-311: the invalid entry is removed and control falls through to
\* the size and type checks.
EvictKeepsEntry(d, k) == d
EvictEntry(d, k) == DictDel(d, k)

TaskEvict(f) ==
    /\ task[f].pc = "evict"
    /\ upload_cache' = EvictEntry(upload_cache, task[f].key)
    /\ cache_changed_by' =
           IF upload_cache' # upload_cache THEN cache_changed_by \cup {f}
           ELSE cache_changed_by
    /\ task' = [task EXCEPT ![f] =
                    AfterCacheMiss(task[f], UploadBytes(f, content[f]))]
    /\ UNCHANGED <<PERSIST_UPLOADS, MAX_WORKERS, docs, content, expired, diskCache,
                   tmpFile, run, upc, tmpName, cache_updated, collected,
                   uploaded, uploadCalls, loadedCache, prevKey, runContent,
                   prevContent, evicted, diskBeforeSave, crashed>>

\* An upload that raised is tried again.
TaskUploadRetrying(f) ==
    /\ task[f].pc = "upload"
    /\ uploadCalls' = [uploadCalls EXCEPT ![f] = @ + 1]
    /\ \E ok \in BOOLEAN :
         IF ok
         THEN task' = [task EXCEPT ![f].pc = "done", ![f].res = <<f, run>>]
         ELSE task' = task
    /\ UNCHANGED cache_changed_by
    /\ UNCHANGED <<PERSIST_UPLOADS, MAX_WORKERS, docs, content, expired,
                   diskCache, tmpFile,
                   run, upc, tmpName, upload_cache, cache_updated, collected,
                   uploaded, loadedCache, prevKey, runContent, prevContent,
                   evicted, diskBeforeSave, crashed>>

\* Lines 324-337: one genai.upload_file call, which returns a new remote
\* artifact or raises.
TaskUpload(f) ==
    /\ task[f].pc = "upload"
    /\ uploadCalls' = [uploadCalls EXCEPT ![f] = @ + 1]
    /\ \E ok \in BOOLEAN :
         IF ok
         THEN task' = [task EXCEPT ![f].pc = "done", ![f].res = <<f, run>>]
         ELSE task' = [task EXCEPT ![f].pc = "done", ![f].res = NoHandle]
    /\ UNCHANGED cache_changed_by
    /\ UNCHANGED <<PERSIST_UPLOADS, MAX_WORKERS, docs, content, expired,
                   diskCache, tmpFile,
                   run, upc, tmpName, upload_cache, cache_updated, collected,
                   uploaded, loadedCache, prevKey, runContent, prevContent,
                   evicted, diskBeforeSave, crashed>>

\* Lines 415-432: the as_completed loop handles one finished future.
Collect(f) ==
    /\ upc = "collect"
    /\ task[f].pc = "done"
    /\ f \notin collected
    /\ collected' = collected \cup {f}
    /\ IF task[f].res # NoHandle
       THEN /\ uploaded' = uploaded \cup {f}
            /\ upload_cache' = DictSet(upload_cache, task[f].key, task[f].res)
            /\ cache_updated' = TRUE
       ELSE UNCHANGED <<uploaded, upload_cache, cache_updated>>
    /\ upc' = IF collected' = docs THEN "join" ELSE "collect"
    /\ UNCHANGED cache_changed_by
    /\ UNCHANGED <<PERSIST_UPLOADS, MAX_WORKERS, docs, content, expired, diskCache,
                   tmpFile, run, tmpName, task, uploadCalls, loadedCache,
                   prevKey, runContent, prevContent, evicted, diskBeforeSave,
                   crashed>>

\* Lines 416-419 and 439-440: the batch timeout ends the loop with futures
\* still unhandled.
UploadTimeout ==
    /\ upc = "collect"
    /\ collected # docs
    /\ upc' = "join"
    /\ UNCHANGED cache_changed_by
    /\ UNCHANGED <<PERSIST_UPLOADS, MAX_WORKERS, docs, content, expired, diskCache,
                   tmpFile, run, tmpName, upload_cache, cache_updated, task,
                   collected, uploaded, uploadCalls, loadedCache, prevKey,
                   runContent, prevContent, evicted, diskBeforeSave, crashed>>

\* Leaving the `with ThreadPoolExecutor` block waits for every submitted
\* task; then lines 447-452 decide whether to save.
JoinPool ==
    /\ upc = "join"
    /\ \A f \in docs : task[f].pc = "done"
    /\ IF cache_updated /\ PERSIST_UPLOADS
       THEN /\ upc' = "save_open"
            /\ diskBeforeSave' = diskCache
       ELSE /\ upc' = "finished"
            /\ diskBeforeSave' = diskBeforeSave
    /\ crashed' = FALSE
    /\ UNCHANGED cache_changed_by
    /\ UNCHANGED <<PERSIST_UPLOADS, MAX_WORKERS, docs, content, expired, diskCache,
                   tmpFile, run, tmpName, upload_cache, cache_updated, task,
                   collected, uploaded, uploadCalls, loadedCache, prevKey,
                   runContent, prevContent, evicted>>

\* _save_upload_cache, lines 169-170: the temporary file is opened for
\* writing (created or truncated); the destination is not touched.  The
\* result is <<cache file, temporary file>>.
OpenInPlace(disk, tmp) == <<CorruptFile, tmp>>
OpenTempForWrite(disk, tmp) == <<disk, CorruptFile>>

SaveOpen ==
    /\ upc = "save_open"
    /\ diskCache' = OpenTempForWrite(diskCache, tmpFile)[1]
    /\ tmpFile' = OpenTempForWrite(diskCache, tmpFile)[2]
    /\ upc' = "save_write"
    /\ UNCHANGED cache_changed_by
    /\ UNCHANGED <<PERSIST_UPLOADS, MAX_WORKERS, docs, content, expired, run,
                   tmpName, upload_cache, cache_updated, task, collected,
                   uploaded, uploadCalls, loadedCache, prevKey, runContent,
                   prevContent, evicted, diskBeforeSave, crashed>>

\* Line 171: json.dump writes the whole mapping to the temporary file.
SaveWrite ==
    /\ upc = "save_write"
    /\ tmpFile' = JsonFile(upload_cache)
    /\ upc' = "save_replace"
    /\ UNCHANGED cache_changed_by
    /\ UNCHANGED <<PERSIST_UPLOADS, MAX_WORKERS, docs, content, expired, diskCache,
                   run, tmpName, upload_cache, cache_updated, task, collected,
                   uploaded, uploadCalls, loadedCache, prevKey, runContent,
                   prevContent, evicted, diskBeforeSave, crashed>>

\* Line 174: os.replace renames the temporary file over the destination.
SaveReplace ==
    /\ upc = "save_replace"
    /\ diskCache' = tmpFile
    /\ tmpFile' = AbsentFile
    /\ upc' = "finished"
    /\ UNCHANGED cache_changed_by
    /\ UNCHANGED <<PERSIST_UPLOADS, MAX_WORKERS, docs, content, expired, run,
                   tmpName, upload_cache, cache_updated, task, collected,
                   uploaded, uploadCalls, loadedCache, prevKey, runContent,
                   prevContent, evicted, diskBeforeSave, crashed>>

\* Lines 177-183: any step of the save may raise; the handler removes the
\* temporary file and the run goes on without a saved cache.
SaveError ==
    /\ upc \in {"save_open", "save_write", "save_replace"}
    /\ tmpFile' = AbsentFile
    /\ upc' = "finished"
    /\ UNCHANGED cache_changed_by
    /\ UNCHANGED <<PERSIST_UPLOADS, MAX_WORKERS, docs, content, expired, diskCache,
                   run, tmpName, upload_cache, cache_updated, task, collected,
                   uploaded, uploadCalls, loadedCache, prevKey, runContent,
                   prevContent, evicted, diskBeforeSave, crashed>>

\* When the process ends its memory is gone; what is left is the files, the
\* remote artifacts and (as history) what the run's cache keys and the
\* documents' bytes were.
MemoryLost ==
    /\ upload_cache' = {}
    /\ cache_updated' = FALSE
    /\ task' = [f \in Files |-> NoTask]
    /\ collected' = {}
    /\ uploaded' = {}
    /\ uploadCalls' = [f \in Files |-> 0]
    /\ loadedCache' = {}
    /\ evicted' = {}
    /\ cache_changed_by' = {}
    /\ prevKey' = [f \in Files |-> task[f].key]
    /\ prevContent' = runContent

\* The run returns from _upload_pdfs and the process ends.
Exit ==
    /\ upc = "finished"
    /\ upc' = "idle"
    /\ MemoryLost
    /\ diskBeforeSave' = AbsentFile
    /\ UNCHANGED <<PERSIST_UPLOADS, MAX_WORKERS, docs, content, expired,
                   diskCache, tmpFile, run, tmpName, runContent, crashed>>

\* The process is killed inside _save_upload_cache before the rename has
\* happened: the files stay as they are.
SaveCrash ==
    /\ upc \in {"save_open", "save_write", "save_replace"}
    /\ upc' = "idle"
    /\ crashed' = TRUE
    /\ MemoryLost
    /\ UNCHANGED <<PERSIST_UPLOADS, MAX_WORKERS, docs, content, expired, diskCache,
                   tmpFile, run, tmpName, runContent, diskBeforeSave>>

UStep ==
    \/ StartRun
    \/ \E f \in Files : EditFile(f)
    \/ \E h \in Handle : ExpireHandle(h)
    \/ \E f \in Files : TaskStart(f)
    \/ \E f \in Files : TaskCheck(f)
    \/ \E f \in Files : TaskEvict(f)
    \/ \E f \in Files : TaskUpload(f)
    \/ \E f \in Files : Collect(f)
    \/ UploadTimeout
    \/ JoinPool
    \/ SaveOpen
    \/ SaveWrite
    \/ SaveReplace
    \/ SaveError
    \/ SaveCrash
    \/ Exit

\* What the retry wrappers' variables are while another stage runs.
RIdle == [kind |-> "none", max |-> 0, attempt |-> 0, calls |-> 0, sleeps |-> 0,
          st |-> "idle", sheet |-> "sheet", allTransient |-> TRUE]

\* What the upload stage's variables are while another stage runs: nothing
\* has been discovered or uploaded.
UIdle ==
    /\ PERSIST_UPLOADS = TRUE
    /\ MAX_WORKERS = 8
    /\ docs = {}
    /\ content = [f \in Files |-> "a"]
    /\ expired = {}
    /\ diskCache = AbsentFile
    /\ tmpFile = AbsentFile
    /\ run = 0
    /\ upc = "off"
    /\ tmpName = [f \in Files |-> "tmpA.txt"]
    /\ upload_cache = {}
    /\ cache_updated = FALSE
    /\ task = [f \in Files |-> NoTask]
    /\ collected = {}
    /\ uploaded = {}
    /\ uploadCalls = [f \in Files |-> 0]
    /\ loadedCache = {}
    /\ prevKey = [f \in Files |-> NoKey]
    /\ runContent = [f \in Files |-> "a"]
    /\ prevContent = [f \in Files |-> "a"]
    /\ evicted = {}
    /\ diskBeforeSave = AbsentFile
    /\ crashed = FALSE
    /\ cache_changed_by = {}

\* A URL: host, path and what follows the path (query or fragment).
Url(h, p, q) == [host |-> h, path |-> p, q |-> q]

\* The pages of the site, with and without a query string or fragment.
Paths == {"/", "/a", "/b", "/c"}
SiteUrls == {Url("site", p, q) : p \in Paths, q \in {"", "?q"}}

\* The crawler before fetch_website_content is called.
CIdle ==
    /\ robots = [kind |-> "allow_all", dis |-> {}]
    /\ start_url = Url("site", "/", "")
    /\ max_pages = 0
    /\ cpc = "off"
    /\ to_visit = {}
    /\ visited = {}
    /\ all_urls = {}
    /\ crawlResult = {}
    /\ crawlFetched = {}
    /\ skips = 0
    /\ urls_to_fetch = {}
    /\ extractFetched = {}
    /\ all_content = {}
    /\ links_seen = {}
    /\ depth = [u \in SiteUrls |-> -1]
    /\ fetch_failed = {}
    /\ offsite_seen = FALSE

\* The evaluation before process_requirements is called.
Rows == 1..NumRows
Passes == {1, 2}
NoFuture == [st |-> "none", reply |-> {}]
NoAbort == [row |-> 0, cause |-> "none"]
\* Calls on the worksheet for one cell: writes by row and column
\* (update_cell), reads of the cell, writes by A1 range address.
NoCalls == [update_cell |-> 0, read_cell |-> 0, update_range |-> 0]

EIdle ==
    /\ pool = 1
    /\ epc = "off"
    /\ rows_batch = [p \in Passes |-> {}]
    /\ fut = [p \in Passes |-> [r \in Rows |-> NoFuture]]
    /\ handled = [p \in Passes |-> {}]
    /\ cell = [r \in Rows |-> {}]
    /\ needs_second_pass = {}
    /\ abort = NoAbort
    /\ VERIFY_WRITES = FALSE
    /\ sheet_calls = [r \in Rows |-> NoCalls]
    /\ requirement_text = [r \in Rows |-> ""]

\* No function call in progress.
FIdle == fn = [op |-> "none", args |-> <<>>, out |-> {}, pc |-> "off"]

\* The activation poller before it is called.
PollHandles == 1..NumHandles

\* Times are counted in 1/64 s, which keeps every product by 1.5 below the
\* cap a whole number.  initial_poll = 5 and max_poll = 60 are the defaults
\* of line 470; the one call of the function (line 822) passes no others.
TicksPerSecond == 64
initial_poll == 5 * TicksPerSecond
max_poll == 60 * TicksPerSecond

\* time.time() + interval, with the time of the call left symbolic.
TimePlus(interval) == <<"now", interval>>

\* A handle with no entry in pending_files.
NoPollState == [poll_interval |-> 0, next_check |-> <<"none", 0>>]

WIdle ==
    /\ poll_state = [h \in PollHandles |-> NoPollState]
    /\ wpc = "off"
    /\ uploaded_files = {}
    /\ pending_files = {}
    /\ active_files = {}
    /\ failed_files = {}
    /\ files_to_check = {}
    /\ timed_out = FALSE
    /\ observed = [h \in PollHandles |-> {}]
    /\ pending_at_deadline = {}

\* prepare_gemini_files before it is called.
PIdle ==
    /\ SOURCES = "docs"
    /\ WEBSITE_URLS = {}
    /\ docs_found = FALSE
    /\ ppc = "off"
    /\ all_files = {}
    /\ website_files = {}

\* No executor block entered.
Tasks == 1..NumTasks

XIdle ==
    executor = [site |-> "none", mw |-> 8, n |-> 0, submitted |-> 0,
                st |-> [t \in Tasks |-> "none"], pc |-> "off"]

UNext == UStep /\ UNCHANGED notU

UploadInit == UInit /\ rt = RIdle /\ CIdle /\ EIdle /\ FIdle /\ WIdle /\ PIdle
    /\ XIdle

UploadSpec == UploadInit /\ [][UNext]_vars

---------------------------------------------------------------------------
\* ------------------------------  C1  ------------------------------------
\* The file was in the previous run under a key that the cache loaded by
\* this run maps to a handle that is still ACTIVE, its bytes are the same,
\* and no status query on that cache entry failed in this run.
C1_UnchangedAndCached(f) ==
    /\ run >= 2
    /\ upc # "idle"
    /\ f \in docs
    /\ runContent[f] = prevContent[f]
    /\ prevKey[f] # NoKey
    /\ DictHas(loadedCache, prevKey[f])
    /\ DictGet(loadedCache, prevKey[f]) \notin expired
    /\ \A g \in evicted : task[g].key # prevKey[f]

\* C1: in a second run sharing the persisted cache, no discovered evidence
\* file (markdown included) with unchanged bytes and a cached handle that is
\* still ACTIVE is uploaded again: its number of upload calls is 0.
C1_NoReuploadOfAnyFile ==
    \A f \in Files : C1_UnchangedAndCached(f) => uploadCalls[f] = 0

\* The same statement for the files that are uploaded under their own name.
C1_NoReuploadOfPlainFiles ==
    \A f \in Files :
        (C1_UnchangedAndCached(f) /\ ~IsMarkdown(f)) => uploadCalls[f] = 0

\* ------------------------------  C2  ------------------------------------
\* C2: when the cached handle of a file cannot be confirmed usable (the
\* status query returns a state other than ACTIVE, or raises), the entry is
\* removed from the in-memory cache and the file is uploaded exactly once in
\* that run: never zero times once its task is done, never more than once.
C2_UploadedOnce ==
    \A f \in Files :
        /\ uploadCalls[f] <= 1
        /\ (f \in evicted /\ task[f].pc = "done") => uploadCalls[f] = 1

C2_EntryRemoved ==
    \A f \in Files :
        (task[f].pc = "evict" /\ task'[f].pc # "evict")
            => ~DictHas(upload_cache', task[f].key)

C2_EvictThenUploadOnce == [](C2_UploadedOnce) /\ [][C2_EntryRemoved]_vars

C2_Witness ==
    \E f \in Files :
        /\ f \in evicted
        /\ task[f].pc = "done"
        /\ uploadCalls[f] = 1
        /\ ~DictHas(upload_cache, task[f].key)
        /\ DictHas(loadedCache, task[f].key)

\* ------------------------------  C3  ------------------------------------
InSaveBeforeRename == upc \in {"save_open", "save_write", "save_replace"}

\* C3: if _save_upload_cache is interrupted at any point before the rename,
\* the cache file still holds exactly the mapping persisted before, and the
\* next _load_upload_cache returns that mapping.
C3_PriorCacheIntact ==
    /\ InSaveBeforeRename => diskCache = diskBeforeSave
    /\ (crashed /\ upc = "idle") => diskCache = diskBeforeSave
    /\ (crashed /\ upc \in {"collect", "join"}) =>
           /\ diskBeforeSave.st # "corrupt"
           /\ loadedCache = diskBeforeSave.map

C3_Witness ==
    /\ crashed
    /\ upc = "collect"
    /\ loadedCache # {}
    /\ tmpFile.st = "ok"
    /\ tmpFile.map # loadedCache

\* ------------------------------  C16  -----------------------------------
\* C16: once the batch timeout has ended the as_completed loop, uploads
\* still in flight or not yet started are abandoned: none of them enters the
\* result and no upload that had not begun is started.
BatchTimedOut == upc = "join" /\ collected # docs

C16_AbandonedAfterTimeout ==
    BatchTimedOut =>
        /\ uploaded' = uploaded
        /\ \A f \in Files : task[f].pc = "queued" => task'[f].pc = "queued"

C16_TimeoutAbandonsUploads == [][C16_AbandonedAfterTimeout]_vars

\* The part that holds: nothing enters the result after the timeout.
C16_NoResultAfterTimeout == [][BatchTimedOut => uploaded' = uploaded]_vars

\* ------------------------------  C18  -----------------------------------
\* C18: at the end of an upload batch the cache is saved if and only if the
\* in-memory cache differs from the mapping loaded at the start: no save
\* when every file was a valid cache hit, and a save when an entry was
\* evicted even though no upload succeeded.
C18_SaveDecision ==
    (PERSIST_UPLOADS /\ upc = "join" /\ upc' # "join") =>
        ((upc' = "save_open") <=> (upload_cache # loadedCache))

C18_SavedIffChanged == [][C18_SaveDecision]_vars

\* What the code does instead: it saves when some file was processed
\* successfully, a cache hit included.
C18_SavedIffSomeSuccess ==
    [][(PERSIST_UPLOADS /\ upc = "join" /\ upc' # "join") =>
          ((upc' = "save_open") <=> (uploaded # {}))]_vars

\* ------------------------------  C22  -----------------------------------
\* C22: under every interleaving of the upload workers and the collecting
\* thread, when _upload_pdfs returns, the cache key of every returned
\* outcome is in the in-memory cache and maps to the handle of a successful
\* outcome for that key; no update made for a success is lost to another
\* worker's update.
C22_KeyHoldsSuccess(f) ==
    /\ DictHas(upload_cache, task[f].key)
    /\ \E g \in uploaded :
          /\ task[g].key = task[f].key
          /\ DictGet(upload_cache, task[f].key) = task[g].res

C22_ReturnedKeysCached ==
    upc = "finished" => \A f \in uploaded : C22_KeyHoldsSuccess(f)

\* The same for batches in which no two paths have the same cache key.
C22_DistinctKeys ==
    \A f \in docs, g \in docs : f # g => task[f].key # task[g].key

C22_ReturnedKeysCachedWhenDistinct ==
    (upc = "finished" /\ C22_DistinctKeys) =>
        \A f \in uploaded : C22_KeyHoldsSuccess(f)

\* ------------------------------  C31  -----------------------------------
\* C31: an attempt to process a file that fails (size, type or upload
\* error) leaves the in-memory upload cache as it found it: no step of that
\* file's task has changed the cache.
FailedAttempt(f) == task[f].pc = "done" /\ task[f].res = NoHandle

C31_FailedAttemptKeepsCache ==
    \A f \in Files : FailedAttempt(f) => f \notin cache_changed_by

\* The same for attempts that found no entry under their key.
C31_FailedWithoutEntryKeepsCache ==
    \A f \in Files :
        (FailedAttempt(f) /\ f \notin evicted) => f \notin cache_changed_by

\* ------------------------------  C32  -----------------------------------
\* C32: within one run genai.upload_file is called at most once per file; a
\* file whose upload failed, or that the batch timeout left unhandled, is
\* not in the evidence returned and is not uploaded again in that run.
C32_AtMostOneUploadCall ==
    \A f \in Files :
        /\ uploadCalls[f] <= 1
        /\ FailedAttempt(f) => f \notin uploaded
        /\ f \in uploaded => (f \in collected /\ task[f].res # NoHandle)
        /\ (upc \in {"join", "finished"} /\ f \notin collected) => f \notin uploaded

\* A finished batch with a file whose one upload call failed and a file the
\* timeout left unhandled.
C32_Witness ==
    /\ upc = "finished"
    /\ \E f \in docs, g \in docs :
         /\ FailedAttempt(f)
         /\ uploadCalls[f] = 1
         /\ f \in collected
         /\ g \notin collected
         /\ uploadCalls[g] = 1

\* ------------------------------  C20  -----------------------------------
\* C20: a file over 20 MB is rejected whatever the cache holds (every cache
\* earlier runs can have left): it never enters the result of the batch and
\* genai.upload_file is never called for it.
Oversize(f) == FileSizeOver20MB(UploadBytes(f, content[f]))

---------------------------------------------------------------------------
\* ============================  Web crawler  =============================

\* The hrefs a fetched page can hold: pages of the site, one of them also
\* with a query, and a page of another host.
HrefUniverse ==
    {Url("site", p, "") : p \in Paths}
        \cup {Url("site", "/a", "?q"), Url("other", "/", "")}

\* urlunparse((scheme, netloc, path, '', '', '')), line 612.
CleanUrl(u) == Url(u.host, u.path, "")

\* The states RobotFileParser.read() can leave the parser in: rules parsed
\* (Allow and Disallow lines can single out any set of RuledPaths);
\* allow_all (a 4xx answer); disallow_all (401/403); server_error (a 5xx
\* answer: read() returns and nothing was parsed); unread (read() raised).
RuledPaths == {"/", "/a", "/b"}

RobotStates ==
    {[kind |-> "rules", dis |-> D] : D \in SUBSET RuledPaths}
        \cup {[kind |-> k, dis |-> {}] :
                 k \in {"allow_all", "disallow_all", "server_error", "unread"}}

\* rp.can_fetch("*", url) of urllib.robotparser: a parser that has not
\* parsed a robots.txt allows nothing.
RpCanFetch(rp, u) ==
    CASE rp.kind = "allow_all" -> TRUE
      [] rp.kind = "rules"     -> u.path \notin rp.dis
      [] OTHER                 -> FALSE

\* can_fetch_url(url, rp), lines 568-583, for an http URL and a given rp.
can_fetch_url(u, rp) == RpCanFetch(rp, u)

\* The test of lines 607-609 left out.
GetLinksOfAnyHost(ok, hrefs, base_domain) ==
    IF ok THEN {CleanUrl(h) : h \in hrefs} ELSE {}

\* The handler of lines 616-618 returning what the page would have held.
GetLinksDespiteFailure(ok, hrefs, base_domain) ==
    {CleanUrl(h) : h \in {x \in hrefs : x.host = base_domain}}

\* get_links_from_page, lines 585-618: same-host links, cleaned; the empty
\* set when the request fails.
get_links_from_page(ok, hrefs, base_domain) ==
    IF ok THEN {CleanUrl(h) : h \in {x \in hrefs : x.host = base_domain}}
    ELSE {}

\* `while to_visit and len(visited) < max_pages`, line 644.
LoopCondOffByOne(tv, vs, mp) == tv # {} /\ Cardinality(vs) <= mp
LoopCond(tv, vs, mp) == tv # {} /\ Cardinality(vs) < mp

\* to_visit.update(new_links - visited), line 660.
FrontierKeepsVisited(tv, new_links, vs) == tv \cup new_links
FrontierAfter(tv, new_links, vs) == tv \cup (new_links \ vs)

\* to_visit.pop() removes the element it returns.
PopKeeps(tv, u) == tv
PopFrom(tv, u) == tv \ {u}

CInit ==
    /\ robots \in RobotStates
    /\ start_url \in {Url("site", "/", ""), Url("site", "/", "?q")}
    /\ max_pages \in 0..MaxPagesBound
    /\ cpc = "robots"
    /\ to_visit = {}
    /\ visited = {}
    /\ all_urls = {}
    /\ crawlResult = {}
    /\ crawlFetched = {}
    /\ skips = 0
    /\ urls_to_fetch = {}
    /\ extractFetched = {}
    /\ all_content = {}
    /\ links_seen = {}
    /\ depth = [u \in SiteUrls |-> IF u = start_url THEN 0 ELSE -1]
    /\ fetch_failed = {}
    /\ offsite_seen = FALSE

\* crawl_website, lines 622-640: robots.txt is read; a start URL it
\* disallows ends the crawl with []; when reading raised the check is
\* skipped and the crawl goes on.
CrawlRobots ==
    /\ cpc = "robots"
    /\ IF robots.kind # "unread" /\ ~RpCanFetch(robots, start_url)
       THEN /\ cpc' = "crawled"
            /\ to_visit' = {}
       ELSE /\ cpc' = "loop"
            /\ to_visit' = {start_url}
    /\ UNCHANGED <<robots, start_url, max_pages, visited, all_urls,
                   crawlResult, crawlFetched, skips, urls_to_fetch,
                   extractFetched, all_content, links_seen>>
    /\ UNCHANGED chist
    /\ UNCHANGED notC

\* One iteration of the loop of lines 644-663.
CrawlLoop ==
    /\ cpc = "loop"
    /\ LoopCond(to_visit, visited, max_pages)
    /\ \E u \in to_visit :
         IF u \in visited
         THEN /\ to_visit' = PopFrom(to_visit, u)
              /\ UNCHANGED <<visited, all_urls, crawlFetched, skips, links_seen>>
              /\ UNCHANGED chist
         ELSE IF ~can_fetch_url(u, robots)
         THEN /\ to_visit' = PopFrom(to_visit, u)
              /\ skips' = IF skips < MaxSkips THEN skips + 1 ELSE skips
              /\ UNCHANGED <<visited, all_urls, crawlFetched, links_seen>>
              /\ UNCHANGED chist
         ELSE \E ok \in BOOLEAN, hrefs \in SUBSET HrefUniverse :
              /\ visited' = visited \cup {u}
              /\ all_urls' = all_urls \cup {u}
              /\ crawlFetched' = crawlFetched \cup {u}
              /\ to_visit' = FrontierAfter(
                     PopFrom(to_visit, u),
                     get_links_from_page(ok, hrefs, start_url.host), visited')
              /\ links_seen' = links_seen \cup
                     get_links_from_page(ok, hrefs, start_url.host)
              /\ skips' = skips
              /\ depth' = [v \in SiteUrls |->
                     IF /\ v \in get_links_from_page(ok, hrefs, start_url.host)
                        /\ (depth[v] = -1 \/ depth[v] > depth[u] + 1)
                     THEN depth[u] + 1 ELSE depth[v]]
              /\ fetch_failed' = IF ok THEN fetch_failed ELSE fetch_failed \cup {u}
              /\ offsite_seen' =
                     (offsite_seen \/
                        (ok /\ \E h \in hrefs : h.host # start_url.host))
    /\ UNCHANGED <<robots, start_url, max_pages, cpc, crawlResult,
                   urls_to_fetch, extractFetched, all_content>>
    /\ UNCHANGED notC

\* Lines 665-666: the loop has ended and list(all_urls) is returned.
CrawlReturn ==
    /\ cpc = "loop"
    /\ ~LoopCond(to_visit, visited, max_pages)
    /\ crawlResult' = all_urls
    /\ cpc' = "crawled"
    /\ UNCHANGED <<robots, start_url, max_pages, to_visit, visited, all_urls,
                   crawlFetched, skips, urls_to_fetch, extractFetched,
                   all_content, links_seen>>
    /\ UNCHANGED chist
    /\ UNCHANGED notC

\* fetch_website_content, lines 675-678: an empty crawl result is replaced
\* by the provided URL.
UrlsToFetch(result, url) == IF result = {} THEN {url} ELSE result

ExtractStart ==
    /\ cpc = "crawled"
    /\ urls_to_fetch' = UrlsToFetch(crawlResult, start_url)
    /\ cpc' = "extract"
    /\ UNCHANGED <<robots, start_url, max_pages, to_visit, visited, all_urls,
                   crawlResult, crawlFetched, skips, extractFetched,
                   all_content, links_seen>>
    /\ UNCHANGED chist
    /\ UNCHANGED notC

\* Lines 684-710: one page is requested; a failure is skipped.
ExtractFetch ==
    /\ cpc = "extract"
    /\ \E u \in urls_to_fetch, ok \in BOOLEAN :
         /\ urls_to_fetch' = urls_to_fetch \ {u}
         /\ extractFetched' = extractFetched \cup {u}
         /\ all_content' = IF ok THEN all_content \cup {u} ELSE all_content
    /\ UNCHANGED <<robots, start_url, max_pages, cpc, to_visit, visited,
                   all_urls, crawlResult, crawlFetched, skips, links_seen>>
    /\ UNCHANGED chist
    /\ UNCHANGED notC

\* Lines 712-720: the content is saved to a temporary file, or None is
\* returned when nothing was fetched.
ExtractReturn ==
    /\ cpc = "extract"
    /\ urls_to_fetch = {}
    /\ cpc' = "done"
    /\ UNCHANGED <<robots, start_url, max_pages, to_visit, visited, all_urls,
                   crawlResult, crawlFetched, skips, urls_to_fetch,
                   extractFetched, all_content, links_seen>>
    /\ UNCHANGED chist
    /\ UNCHANGED notC

CNext ==
    \/ CrawlRobots
    \/ CrawlLoop
    \/ CrawlReturn
    \/ ExtractStart
    \/ ExtractFetch
    \/ ExtractReturn

CrawlInit == CInit /\ UIdle /\ rt = RIdle /\ EIdle /\ FIdle /\ WIdle /\ PIdle
    /\ XIdle

CrawlSpec == CrawlInit /\ [][CNext]_vars

\* The crawl is one sequential loop: a step that can be taken is taken.
CrawlLiveSpec == CrawlSpec /\ WF_vars(CNext)

\* ------------------------------  C8  ------------------------------------
\* C8: for every max_pages = N >= 0 and every link graph, crawl_website
\* requests at most N distinct pages and returns at most N URLs.
C8_AtMostMaxPages ==
    /\ Cardinality(visited) <= max_pages
    /\ Cardinality(crawlFetched) <= max_pages
    /\ Cardinality(crawlResult) <= max_pages

C8_Witness ==
    /\ cpc = "crawled"
    /\ max_pages >= 2
    /\ Cardinality(crawlResult) = max_pages
    /\ Cardinality(crawlFetched) = max_pages
    /\ to_visit # {}

\* ------------------------------  C9  ------------------------------------
\* C9: crawl_website terminates on every finite link graph, with cycles and
\* with disallowed URLs that several pages link to (such a URL is popped
\* without being added to visited and can enter the frontier again).
C9_CrawlTerminates == <>(cpc \in {"crawled", "extract", "done"})

C9_Witness ==
    /\ cpc = "crawled"
    /\ skips >= 2
    /\ Cardinality(visited) >= 2
    /\ robots.kind = "rules"
    /\ Cardinality(robots.dis) = 1

\* ------------------------------  C10  -----------------------------------
\* C10: when robots.txt disallows the start URL for the wildcard agent, the
\* crawl result is empty and no page of the site is requested at all,
\* neither by crawl_website nor by the extraction step that consumes its
\* result.
StartDisallowed ==
    robots.kind \in {"rules", "disallow_all"} /\ ~RpCanFetch(robots, start_url)

C10_NoFetchWhenStartDisallowed ==
    StartDisallowed =>
        /\ crawlResult = {}
        /\ crawlFetched = {}
        /\ extractFetched = {}

\* The part of it that is about crawl_website alone.
C10_CrawlAloneFetchesNothing ==
    StartDisallowed => (crawlResult = {} /\ crawlFetched = {})

\* ------------------------------  C14  -----------------------------------
\* C14: to_visit and visited are disjoint in every state of crawl_website,
\* and a URL enters visited only by leaving to_visit in the iteration that
\* fetches it; visited never loses a URL, so this happens at most once.
C14_Disjoint == to_visit \cap visited = {}

C14_MovedWhenFetched ==
    /\ visited \subseteq visited'
    /\ \A u \in visited' \ visited :
         /\ u \in to_visit
         /\ u \notin to_visit'
         /\ u \in crawlFetched' \ crawlFetched
         /\ visited' = visited \cup {u}

C14_FrontierAndVisitedDisjoint == [](C14_Disjoint) /\ [][C14_MovedWhenFetched]_vars

C14_Witness ==
    /\ cpc = "loop"
    /\ Cardinality(visited) >= 2
    /\ links_seen \cap visited # {}
    /\ to_visit # {}

\* ------------------------------  C27  -----------------------------------
\* C27: two URLs that differ only in fragment or query string, the start
\* URL and a discovered link to the same page included, are one page: the
\* crawl fetches at most one of them and returns at most one of them.
C27_OnePerPage(urls) ==
    \A u \in urls, v \in urls : CleanUrl(u) = CleanUrl(v) => u = v

C27_EquivalentUrlsOnce ==
    C27_OnePerPage(crawlFetched) /\ C27_OnePerPage(crawlResult)

\* The same for crawls whose start URL has neither query nor fragment.
C27_OnceWhenStartIsClean ==
    start_url = CleanUrl(start_url) =>
        (C27_OnePerPage(crawlFetched) /\ C27_OnePerPage(crawlResult))

\* ------------------------------  C28  -----------------------------------
\* C28: pages are fetched in breadth-first order: no page is fetched while
\* an allowed, unvisited page nearer the start URL is in the frontier.
C28_NearestFirst ==
    \A u \in crawlFetched' \ crawlFetched :
        \A v \in to_visit \ visited :
            can_fetch_url(v, robots) => depth[v] >= depth[u]

C28_BreadthFirst == [][C28_NearestFirst]_vars

\* ------------------------------  C29  -----------------------------------
\* C29: every URL crawl_website returns has the host of the start URL and
\* is allowed by the robots directives the crawl consulted, and no link to
\* another host ever enters the frontier.
C29_SameHostAndAllowed ==
    /\ \A u \in crawlResult \cup all_urls :
          /\ u.host = start_url.host
          /\ RpCanFetch(robots, u)
    /\ \A u \in to_visit : u.host = start_url.host

\* A crawl of several pages that met a link to another host and a link the
\* rules disallow.
C29_Witness ==
    /\ cpc = "crawled"
    /\ offsite_seen
    /\ robots.kind = "rules"
    /\ skips >= 1
    /\ Cardinality(crawlResult) >= 2

\* ------------------------------  C30  -----------------------------------
\* C30: a page whose fetch fails is treated as a page without links: the
\* crawl goes on with the rest of the frontier, and when it ends every
\* allowed link found on the pages that were fetched has been visited,
\* unless the page budget was used up.
C30_FailureAddsNoLinks ==
    \A u \in fetch_failed' \ fetch_failed :
        /\ to_visit' = to_visit \ {u}
        /\ cpc' = "loop"
        /\ u \in visited'

C30_RestStillVisited ==
    cpc = "crawled" =>
        \/ Cardinality(visited) >= max_pages
        \/ \A v \in links_seen \cup {start_url} :
               can_fetch_url(v, robots) => v \in visited

C30_FetchFailureIsNoLinks ==
    [](C30_RestStillVisited) /\ [][C30_FailureAddsNoLinks]_vars

\* A page other than the start failed, the frontier was emptied all the
\* same, and two pages were fetched without failure.
C30_Witness ==
    /\ cpc = "crawled"
    /\ to_visit = {}
    /\ fetch_failed # {}
    /\ start_url \notin fetch_failed
    /\ Cardinality(visited \ fetch_failed) >= 2

\* ------------------------------  C40  -----------------------------------
\* C40: when reading the robots directives raised, crawl_website goes on
\* with the crawl: with room for at least one page the start URL is
\* fetched and is in the result.
CrawlReturned == cpc \notin {"off", "robots", "loop"}

C40_UnreadRobotsStillCrawls ==
    (robots.kind = "unread" /\ max_pages >= 1 /\ CrawlReturned) =>
        /\ start_url \in crawlFetched
        /\ start_url \in crawlResult

\* What the code does instead: nothing is fetched and the result is empty.
C40_UnreadRobotsSkipsEverything ==
    (robots.kind = "unread" /\ CrawlReturned) =>
        /\ crawlFetched = {}
        /\ crawlResult = {}
        /\ max_pages >= 1 => skips = 1

---------------------------------------------------------------------------
\* ==========================  Retry wrappers  ============================

\* What one call of the collaborator does: return, raise one of the errors
\* the wrapper's except clause names, or raise any other error.
CallOutcomes == {"ok", "transient", "other"}

\* What the reconnection inside update_cell_with_retry does (lines 961-969):
\* setup_sheets_client returns and the worksheet is reopened, it returns and
\* reopening fails (caught, the old worksheet is kept), or
\* setup_sheets_client itself ends the process with SystemExit(1)
\* (lines 1026-1035).
ReconnectOutcomes == {"reopened", "open_failed", "system_exit"}

RetryStart(kind, max) ==
    [kind |-> kind, max |-> max, attempt |-> 1, calls |-> 0, sleeps |-> 0,
     st |-> "calling", sheet |-> "sheet", allTransient |-> TRUE]

\* `if attempt >= max_attempts: raise e` (lines 918 and 956).
GivesUpOneLate(attempt, max) == attempt > max
GivesUp(attempt, max) == attempt >= max

\* One pass through the try block: the call, and the except clause up to
\* _backoff_sleep.  generate_with_retry then adds 1 to attempt itself;
\* update_cell_with_retry first reconnects.
RetryCall(r, o) ==
    LET c == [r EXCEPT !.calls = @ + 1,
                       !.allTransient = @ /\ o = "transient"]
    IN  CASE o = "ok"    -> [c EXCEPT !.st = "returned"]
          [] o = "other" -> [c EXCEPT !.st = "raised_other"]
          [] OTHER ->
                IF GivesUp(r.attempt, r.max)
                THEN [c EXCEPT !.st = "raised_transient"]
                ELSE IF r.kind = "generate"
                     THEN [c EXCEPT !.sleeps = @ + 1, !.attempt = @ + 1]
                     ELSE [c EXCEPT !.sleeps = @ + 1, !.st = "reconnecting"]

\* Lines 960-970 of update_cell_with_retry.
RetryReconnect(r, o) ==
    CASE o = "system_exit" -> [r EXCEPT !.st = "system_exit"]
      [] o = "reopened"    -> [r EXCEPT !.st = "calling", !.attempt = @ + 1,
                                        !.sheet = "reopened"]
      [] OTHER             -> [r EXCEPT !.st = "calling", !.attempt = @ + 1]

RetryDone(r) == r.st \in {"returned", "raised_other", "raised_transient",
                          "system_exit"}

RInit ==
    \E kind \in {"generate", "update"}, max \in 0..MaxAttemptsBound :
        rt = RetryStart(kind, max)

Attempt ==
    /\ rt.st = "calling"
    /\ \E o \in CallOutcomes : rt' = RetryCall(rt, o)
    /\ UNCHANGED notR

Reconnect ==
    /\ rt.st = "reconnecting"
    /\ \E o \in ReconnectOutcomes : rt' = RetryReconnect(rt, o)
    /\ UNCHANGED notR

RNext == Attempt \/ Reconnect

RetryInit == RInit /\ UIdle /\ CIdle /\ EIdle /\ FIdle /\ WIdle /\ PIdle
    /\ XIdle

RetrySpec == RetryInit /\ [][RNext]_vars

\* ------------------------------  C4  ------------------------------------
\* C4: for every max_attempts >= 1, a call that raises a transient error on
\* every attempt is invoked exactly max_attempts times and then the error
\* propagates to the caller, in generate_with_retry and in
\* update_cell_with_retry.
C4_ExactlyMaxAttempts ==
    (rt.max >= 1 /\ rt.allTransient) =>
        /\ rt.calls <= rt.max
        /\ RetryDone(rt) => (rt.st = "raised_transient" /\ rt.calls = rt.max)

\* The same statement for generate_with_retry alone.
C4_GenerateExactlyMaxAttempts ==
    (rt.kind = "generate") => C4_ExactlyMaxAttempts

---------------------------------------------------------------------------
\* ======================  Two-pass evaluation  ===========================

\* Cell texts a column can hold: empty, blank, and a text.
CellTexts == {"", " ", "text"}
Columns == UNION {[1..n -> CellTexts] : n \in 0..MaxColLen}

\* str.strip() on a cell text.
Strip(t) == IF t = " " THEN "" ELSE t

\* Lines 1152-1155: a column padded with '' up to n cells.
Pad(col, n) == [i \in 1..n |-> IF i <= Len(col) THEN col[i] ELSE ""]


\* The test of line 1160 without its second half: a row that holds a
\* verdict is collected too.
EligibleRowsWithVerdict(req, comp, last) ==
    {row \in 2..last : ~(Strip(req[row]) = "")}

\* The loop of lines 1157-1163 over rows 2..last of two padded columns.
EligibleRows(req, comp, last) ==
    {row \in 2..last :
        ~(Strip(req[row]) = "" \/ Strip(comp[row]) # "")}

\* The columns are cut to the shorter one instead of padded to the longer.
RowsUpToShorter(requirement_col_values, compliance_col_values) ==
    EligibleRows(requirement_col_values, compliance_col_values,
                 Min(Len(requirement_col_values), Len(compliance_col_values)))

\* rows_to_process of process_requirements, lines 1142-1163 (the set of
\* its row numbers).
rows_to_process(requirement_col_values, compliance_col_values) ==
    LET max_len == Max(Len(requirement_col_values), Len(compliance_col_values))
    IN  EligibleRows(Pad(requirement_col_values, max_len),
                     Pad(compliance_col_values, max_len), max_len)

\* MAX_WORKERS values tried for the evaluation pool.
EvalWorkerChoices == {0, 1, 8}

\* max(1, MAX_WORKERS), line 1330.
EvalPoolSize(mw) == IF mw < 1 THEN 1 ELSE mw

\* A model reply is the set of the phrases its text contains.  "Doc" is the
\* allowed document name in another letter case; "other" is a document that
\* is not among the allowed ones.
allowed_doc_names == {"doc"}
Lower(t) ==
    CASE t = "Doc"    -> "doc"
      [] t = "Policy" -> "policy"
      [] t = "NOT_FOUND" -> "not_found"
      [] OTHER        -> t
Replies ==
    { {},
      {"compliant", "Doc"},
      {"partially", "doc"},
      {"partially", "other"} }

not_found_indicators == {"not_found", "insufficient information"}

\* `x in text.lower()` for a phrase x: every text contains the empty phrase.
ContainsLower(stmt, x) == x = "" \/ x \in {Lower(t) : t \in stmt}

\* Lines 941-944 left out: the statement is returned whatever it cites.
NormalizeWithoutCitationCheck(stmt, allowed) ==
    IF stmt = {} THEN {"not_found"}
    ELSE IF \E ind \in not_found_indicators : ContainsLower(stmt, ind)
         THEN {"not_found"}
    ELSE stmt

\* Line 926 left out: an empty answer is returned as it is.
NormalizeKeepsEmpty(stmt, allowed) ==
    IF stmt = {} THEN {}
    ELSE IF \E ind \in not_found_indicators : ContainsLower(stmt, ind)
         THEN {"not_found"}
    ELSE IF allowed # {} /\
            ~(\E name \in allowed : name # "" /\ ContainsLower(stmt, Lower(name)))
         THEN {"not_found"}
    ELSE stmt

\* _normalize_compliance_statement, lines 924-946.
_normalize_compliance_statement(stmt, allowed) ==
    IF stmt = {} THEN {"not_found"}
    ELSE IF \E ind \in not_found_indicators : ContainsLower(stmt, ind)
         THEN {"not_found"}
    ELSE IF allowed # {} /\
            ~(\E name \in allowed : name # "" /\ ContainsLower(stmt, Lower(name)))
         THEN {"not_found"}
    ELSE stmt

\* The escalation test of _worker_generate, lines 1287-1293.
EscalationKeywords ==
    {"not_found", "uncertain", "partially", "i don't know", "i do not know"}

NeedsSecondPass(normalized, first_pass) ==
    first_pass /\ ({Lower(t) : t \in normalized} \cap EscalationKeywords # {})

\* _worker_generate, lines 1260-1295, for a reply generate_with_retry
\* returned: the pair (normalized, needs_second_pass).
_worker_generate(reply, first_pass) ==
    [text  |-> _normalize_compliance_statement(reply, allowed_doc_names),
     retry |-> NeedsSecondPass(
                   _normalize_compliance_statement(reply, allowed_doc_names),
                   first_pass)]

\* _verify_and_fix_sources, lines 1297-1320: a cited name is replaced by
\* the allowed name it matches.
RefTokens == {"doc", "Doc", "other"}
_find_best_source_match(ref, allowed) ==
    IF Lower(ref) \in allowed THEN Lower(ref) ELSE ref
_verify_and_fix_sources(response) ==
    IF response = {} \/ "not_found" \in response THEN response
    ELSE (response \ RefTokens) \cup
         {_find_best_source_match(t, allowed_doc_names) : t \in response \cap RefTokens}

\* The value process_batch writes for a result, lines 1342-1347.
CellValue(text, is_second_pass) ==
    IF is_second_pass
    THEN _verify_and_fix_sources(text) \cup {"[REVIEWED]"}
    ELSE _verify_and_fix_sources(text)

\* error_msg, line 1357.
ErrorValue == {"ERROR"}

\* What update_cell_with_retry can end with (lines 948-970): the value is
\* written; an exception is raised; setup_sheets_client ends the process.
WriteOutcomes == {"written", "raised", "system_exit"}
\* What the bare sheet.update_cell of line 1359 can end with.
ErrorWriteOutcomes == {"written", "raised"}

Completed(f) == f.st \in {"returned", "raised"}
RunningIn(p) == {r \in Rows : fut[p][r].st = "running"}
PassOf(pc) == IF pc = "pass1" THEN 1 ELSE 2

\* The futures process_batch submits for rows_batch, lines 1331-1334.
Submitted(batch) ==
    [r \in Rows |-> IF r \in batch THEN [st |-> "queued", reply |-> {}]
                    ELSE NoFuture]

\* sheet.col_values(col), lines 1145-1146: the cells of the column from row 1
\* down to the last cell that holds something.
col_values(cells) ==
    LET filled == {i \in 1..Len(cells) : cells[i] # ""}
    IN  IF filled = {} THEN <<>>
        ELSE SubSeq(cells, 1, CHOOSE i \in filled : \A j \in filled : j <= i)

\* The text the sheet holds for a verdict cell.
VerdictText(c) == IF c = {} THEN "" ELSE "text"

\* Verdict cells a sheet can hold before a run: none, or an earlier verdict
\* (verdicts are only written next to a requirement).
PriorVerdicts == {{}, {"compliant", "doc", "earlier"}}

\* Lines 1142-1163 on the sheet as it is: row 1 holds the two headers, row
\* r of Rows is physical row r + 1.
RowsToProcessNow(requirements, cells) ==
    {row - 1 : row \in rows_to_process(
        col_values(<<"text">> \o requirements),
        col_values(<<"text">> \o [r \in Rows |-> VerdictText(cells[r])]))}

\* Lines 1165-1168 and 1364: with no row to process the run returns, else
\* the first pass is started over the rows collected.
RunStarts(b, pc, batch, futures) ==
    /\ pc = IF b = {} THEN "done" ELSE "pass1"
    /\ batch = [p \in Passes |-> IF p = 1 THEN b ELSE {}]
    /\ futures = [p \in Passes |-> IF p = 1 THEN Submitted(b)
                                   ELSE [r \in Rows |-> NoFuture]]

EInit ==
    /\ \E mw \in EvalWorkerChoices : pool = EvalPoolSize(mw)
    /\ requirement_text \in [Rows -> CellTexts]
    /\ cell \in [Rows -> PriorVerdicts]
    /\ \A r \in Rows : cell[r] # {} => Strip(requirement_text[r]) # ""
    /\ RunStarts(RowsToProcessNow(requirement_text, cell), epc, rows_batch, fut)
    /\ handled = [p \in Passes |-> {}]
    /\ needs_second_pass = {}
    /\ abort = NoAbort
    /\ VERIFY_WRITES \in BOOLEAN
    /\ sheet_calls = [r \in Rows |-> NoCalls]

\* process_requirements is run again on the sheet the last run left.
NextRun ==
    /\ epc \in {"done", "aborted"}
    /\ RunStarts(RowsToProcessNow(requirement_text, cell), epc', rows_batch', fut')
    /\ handled' = [p \in Passes |-> {}]
    /\ needs_second_pass' = {}
    /\ abort' = NoAbort
    /\ sheet_calls' = [r \in Rows |-> NoCalls]
    /\ UNCHANGED <<pool, cell, VERIFY_WRITES, requirement_text>>
    /\ UNCHANGED notE

\* A pool thread takes a queued call of _worker_generate.
GenStart ==
    /\ epc \in {"pass1", "pass2", "unwinding1", "unwinding2"}
    /\ \E p \in Passes, r \in Rows :
         /\ epc \in {"pass1", "unwinding1"} <=> p = 1
         /\ fut[p][r].st = "queued"
         /\ Cardinality(RunningIn(p)) < pool
         /\ fut' = [fut EXCEPT ![p][r].st = "running"]
    /\ UNCHANGED <<pool, epc, rows_batch, handled, cell, needs_second_pass, abort,
                   VERIFY_WRITES, sheet_calls, requirement_text>>
    /\ UNCHANGED notE

\* generate_with_retry returns a reply or raises (line 1279).
GenFinish ==
    /\ \E p \in Passes, r \in Rows :
         /\ fut[p][r].st = "running"
         /\ \/ \E reply \in Replies :
                 fut' = [fut EXCEPT ![p][r] = [st |-> "returned", reply |-> reply]]
            \/ fut' = [fut EXCEPT ![p][r] = [st |-> "raised", reply |-> {}]]
    /\ UNCHANGED <<pool, epc, rows_batch, handled, cell, needs_second_pass, abort,
                   VERIFY_WRITES, sheet_calls, requirement_text>>
    /\ UNCHANGED notE

\* The handler `except Exception` of lines 1356-1359 for row r in pass p:
\* the error verdict is written with no retry, and a failure of that write
\* leaves process_batch.
ErrorVerdict(p, r, cause, earlier) ==
    \E w \in ErrorWriteOutcomes :
      /\ sheet_calls' = [sheet_calls EXCEPT ![r].update_cell = @ + earlier + 1]
      /\ IF w = "written"
         THEN /\ cell' = [cell EXCEPT ![r] = ErrorValue]
              /\ handled' = [handled EXCEPT ![p] = @ \cup {r}]
              /\ UNCHANGED <<epc, abort>>
         ELSE /\ epc' = IF p = 1 THEN "unwinding1" ELSE "unwinding2"
              /\ abort' = [row |-> r, cause |-> cause]
              /\ UNCHANGED <<cell, handled>>

\* The row is noted for the second pass before its verdict is written.
AppendBeforeWrite(nsp, r, needs_retry, is_second_pass, written) ==
    IF needs_retry /\ ~is_second_pass THEN nsp \cup {r} ELSE nsp

\* Lines 1349-1353: the append to needs_second_pass comes after
\* update_cell_with_retry and is reached only when that call returned.
AppendAfterWrite(nsp, r, needs_retry, is_second_pass, written) ==
    IF written /\ needs_retry /\ ~is_second_pass THEN nsp \cup {r} ELSE nsp

\* One iteration of `for future in as_completed(...)`, lines 1336-1359.
HandleResult ==
    /\ epc \in {"pass1", "pass2"}
    /\ \E r \in rows_batch[PassOf(epc)] \ handled[PassOf(epc)] :
         LET p == PassOf(epc)
             f == fut[p][r]
             res == _worker_generate(f.reply, p = 1)
         IN  /\ Completed(f)
             /\ IF f.st = "raised"
                THEN /\ ErrorVerdict(p, r, "generation_failed", 0)
                     /\ UNCHANGED needs_second_pass
                ELSE \E w \in WriteOutcomes :
                       CASE w = "written" ->
                              /\ cell' = [cell EXCEPT ![r] = CellValue(res.text, p = 2)]
                              /\ handled' = [handled EXCEPT ![p] = @ \cup {r}]
                              /\ needs_second_pass' =
                                     AppendAfterWrite(needs_second_pass, r,
                                                      res.retry, p = 2, TRUE)
                              /\ sheet_calls' =
                                     [sheet_calls EXCEPT ![r].update_cell = @ + 1]
                              /\ UNCHANGED <<epc, abort>>
                         [] w = "raised" ->
                              /\ ErrorVerdict(p, r, "write_failed", 1)
                              /\ needs_second_pass' =
                                     AppendAfterWrite(needs_second_pass, r,
                                                      res.retry, p = 2, FALSE)
                         [] OTHER ->
                              /\ epc' = IF p = 1 THEN "unwinding1" ELSE "unwinding2"
                              /\ abort' = [row |-> r, cause |-> "system_exit"]
                              /\ sheet_calls' =
                                     [sheet_calls EXCEPT ![r].update_cell = @ + 1]
                              /\ UNCHANGED <<cell, handled, needs_second_pass>>
    /\ UNCHANGED <<pool, rows_batch, fut, VERIFY_WRITES, requirement_text>>
    /\ UNCHANGED notE

\* The loop of as_completed ends when every future of the batch was yielded.
HandledSome(batch, done) == done # {}
PassComplete(batch, done) == batch \subseteq done

\* process_batch returns (line 1361) and, after pass 1, the second pass is
\* started for the rows collected, lines 1364-1371.
PassEnd ==
    /\ epc \in {"pass1", "pass2"}
    /\ PassComplete(rows_batch[PassOf(epc)], handled[PassOf(epc)])
    /\ IF epc = "pass1" /\ needs_second_pass # {}
       THEN /\ epc' = "pass2"
            /\ rows_batch' = [rows_batch EXCEPT ![2] = needs_second_pass]
            /\ fut' = [fut EXCEPT ![2] = Submitted(needs_second_pass)]
       ELSE /\ epc' = "done"
            /\ UNCHANGED <<rows_batch, fut>>
    /\ UNCHANGED <<pool, handled, cell, needs_second_pass, abort, VERIFY_WRITES,
                   sheet_calls, requirement_text>>
    /\ UNCHANGED notE

\* An exception leaves the `with ThreadPoolExecutor` block: the executor
\* is shut down with wait=True, so the calls already submitted still run,
\* and then the exception leaves process_requirements.
Unwind ==
    /\ epc \in {"unwinding1", "unwinding2"}
    /\ LET p == IF epc = "unwinding1" THEN 1 ELSE 2
       IN  \A r \in Rows : fut[p][r].st \notin {"queued", "running"}
    /\ epc' = "aborted"
    /\ UNCHANGED <<pool, rows_batch, fut, handled, cell, needs_second_pass, abort,
                   VERIFY_WRITES, sheet_calls, requirement_text>>
    /\ UNCHANGED notE

ENext ==
    \/ GenStart
    \/ GenFinish
    \/ HandleResult
    \/ PassEnd
    \/ Unwind
    \/ NextRun

EvalInit == EInit /\ UIdle /\ rt = RIdle /\ CIdle /\ FIdle /\ WIdle /\ PIdle
    /\ XIdle

EvalSpec == EvalInit /\ [][ENext]_vars

RunEnded == epc \in {"done", "aborted"}

\* ------------------------------  C5  ------------------------------------
\* C5: every row whose pass-1 normalized answer holds an escalation keyword
\* is in the pass-2 input set and, when the run has ended, its cell holds a
\* value with the [REVIEWED] marker, whatever the outcomes of the
\* generation and write calls made for the row.
Escalated(r) ==
    /\ fut[1][r].st = "returned"
    /\ _worker_generate(fut[1][r].reply, TRUE).retry

C5_EscalatedRowsReviewed ==
    RunEnded =>
        \A r \in Rows :
            Escalated(r) => (r \in rows_batch[2] /\ "[REVIEWED]" \in cell[r])

\* ------------------------------  C6  ------------------------------------
\* C6: no pass-2 generation call and no pass-2 write starts before every
\* pass-1 generation call has completed and every pass-1 result has been
\* handled.
Pass2Started ==
    \/ \E r \in Rows : fut[2][r].st # "none"
    \/ handled[2] # {}
    \/ \E r \in Rows : "[REVIEWED]" \in cell[r]

C6_PassesSequential ==
    Pass2Started =>
        \A r \in rows_batch[1] : Completed(fut[1][r]) /\ r \in handled[1]

C6_Witness ==
    /\ epc = "pass2"
    /\ pool > 1
    /\ rows_batch[1] = Rows
    /\ \E r \in Rows : fut[2][r].st = "running"
    /\ \E r \in Rows : fut[1][r].st = "raised"

\* ------------------------------  C7  ------------------------------------
\* C7: a row whose generation call failed gets the ERROR verdict, every
\* other row of the batch is still evaluated and written, and the batch is
\* never left because of that row, also when writing the ERROR verdict
\* fails.
C7_RowFailureNeverAbortsBatch ==
    /\ abort.cause # "generation_failed"
    /\ \A p \in Passes, r \in Rows :
         (fut[p][r].st = "raised" /\ r \in handled[p]) => cell[r] = ErrorValue

\* The part that holds: a handled row whose generation failed holds ERROR.
C7_HandledFailureHasErrorVerdict ==
    \A p \in Passes, r \in Rows :
        (fut[p][r].st = "raised" /\ r \in handled[p]) => cell[r] = ErrorValue

\* ------------------------------  C12  -----------------------------------
\* C12: with write verification enabled, a write that reported success is
\* followed by a read-back of the cell, and an empty read-back by exactly
\* one fallback write that addresses the cell by its A1 range.
WriteReportedSuccess(r) ==
    /\ r \in handled[1] \cup handled[2]
    /\ cell[r] # ErrorValue

C12_ReadBackAfterWrite ==
    VERIFY_WRITES =>
        \A r \in Rows :
            WriteReportedSuccess(r) =>
                /\ sheet_calls[r].read_cell >= 1
                /\ sheet_calls[r].update_range <= 1

\* ------------------------------  C19  -----------------------------------
\* C19: once setup has succeeded, the failure of one item (here a row's
\* generation call or a row's write) never ends the run: process_batch is
\* never left early and the remaining rows are processed.
C19_NoItemFailureEndsRun ==
    /\ abort = NoAbort
    /\ epc \notin {"unwinding1", "unwinding2", "aborted"}

\* ------------------------------  C33  -----------------------------------
\* C33: a row whose pass-1 normalized answer holds none of the escalation
\* keywords gets no pass-2 generation call, its cell is written exactly
\* once in the run, and its final value has no [REVIEWED] marker.
NotEscalated(r) ==
    /\ fut[1][r].st = "returned"
    /\ ~_worker_generate(fut[1][r].reply, TRUE).retry

\* Writes of this run that took effect on the cell of row r.
Writes(r) == Cardinality({p \in Passes : r \in handled[p]})

C33_UnflaggedRowWrittenOnce ==
    RunEnded =>
        \A r \in Rows :
            NotEscalated(r) =>
                /\ fut[2][r] = NoFuture
                /\ Writes(r) = 1
                /\ "[REVIEWED]" \notin cell[r]

\* The part that holds: such a row is never in the pass-2 input, is written
\* at most once, and once when the run reaches its end.
C33_UnflaggedRowStaysOutOfPass2 ==
    \A r \in Rows :
        NotEscalated(r) =>
            /\ fut[2][r] = NoFuture
            /\ r \notin rows_batch[2]
            /\ Writes(r) <= 1
            /\ "[REVIEWED]" \notin cell[r]
            /\ epc = "done" => Writes(r) = 1

\* ------------------------------  C34  -----------------------------------
\* C34: for fixed model answers per (row, pass), the final content of every
\* verdict cell and the pass-2 input set are the same under every
\* completion order of the generation calls of a pass: the final content
\* of a row is the value its own answers determine.
AnswerValue(f, is_second_pass) ==
    IF f.st = "raised" THEN ErrorValue
    ELSE CellValue(_worker_generate(f.reply, ~is_second_pass).text, is_second_pass)

\* The final content the answers of row r determine.
ExpectedCell(r) ==
    IF Escalated(r) THEN AnswerValue(fut[2][r], TRUE)
    ELSE AnswerValue(fut[1][r], FALSE)

\* The answers the final content of row r depends on were given.
HasAnswers(r) ==
    /\ Completed(fut[1][r])
    /\ Escalated(r) => Completed(fut[2][r])

\* Every write call issued on the cell of row r took effect.
OwnWritesSucceed(r) == sheet_calls[r].update_cell = Writes(r)

C34_ContentIndependentOfOrder ==
    RunEnded =>
        /\ \A r \in rows_batch[1] :
              (HasAnswers(r) /\ OwnWritesSucceed(r)) => cell[r] = ExpectedCell(r)
        /\ (\A r \in rows_batch[1] : Completed(fut[1][r]) /\ OwnWritesSucceed(r))
              => rows_batch[2] = {r \in Rows : Escalated(r)}

\* The part that holds: in a run that reaches its end the content of a row
\* whose writes took effect is the value its answers determine.
C34_OrderIndependentInCompleteRun ==
    epc = "done" =>
        /\ \A r \in rows_batch[1] :
              OwnWritesSucceed(r) => (HasAnswers(r) /\ cell[r] = ExpectedCell(r))
        /\ (\A r \in rows_batch[1] : OwnWritesSucceed(r))
              => rows_batch[2] = {r \in Rows : Escalated(r)}

\* Two rows answered without an escalation keyword, the second one left
\* unwritten although no write on its cell failed.
C34_LeftUnwritten ==
    /\ epc = "aborted"
    /\ rows_batch[1] = Rows
    /\ \A r \in Rows : fut[1][r].reply = {"compliant", "Doc"}
    /\ abort.row = 1
    /\ sheet_calls[2] = NoCalls
    /\ cell[2] = {}

\* The same answers and the same failure on row 1, the second row written.
C34_WrittenInOtherOrder ==
    /\ epc = "aborted"
    /\ rows_batch[1] = Rows
    /\ \A r \in Rows : fut[1][r].reply = {"compliant", "Doc"}
    /\ abort.row = 1
    /\ cell[2] = {"compliant", "doc"}

\* ------------------------------  C35  -----------------------------------
\* C35: an error of the generation call outside the transient classes is
\* not retried: generate_with_retry propagates it from the attempt that
\* raised it, without a back-off after it, and the row then receives an
\* error verdict.
C35_RaisedRowGetsErrorVerdict ==
    RunEnded =>
        \A p \in Passes, r \in Rows :
            fut[p][r].st = "raised" => cell[r] = ErrorValue

\* The part that holds, in generate_with_retry: the call that raised the
\* error is the last one, no sleep follows it, and an error of the first
\* call leaves after one call and no sleep.
C35_NonTransientNotRetried ==
    (rt.kind = "generate" /\ rt.st = "raised_other") =>
        /\ rt.calls = rt.attempt
        /\ rt.sleeps = rt.calls - 1
        /\ rt.attempt = 1 => (rt.calls = 1 /\ rt.sleeps = 0)

\* The part that holds, in process_batch: the handler issues the write of
\* the error verdict and never escalates the row.
C35_RaisedRowNeverEscalated ==
    \A p \in Passes, r \in Rows :
        (fut[p][r].st = "raised" /\ r \in handled[p]) =>
            /\ cell[r] = ErrorValue
            /\ p = 1 => (r \notin needs_second_pass /\ fut[2][r] = NoFuture)

\* ------------------------------  C37  -----------------------------------
\* C37: the rows of a run are exactly the rows that hold a requirement and
\* no verdict when the run starts; no cell of another row is ever written,
\* in either pass and on every error path, and the requirement column is
\* never written.
NothingWrittenYet == \A r \in Rows : sheet_calls[r] = NoCalls

EligibleNow ==
    {r \in Rows : Strip(requirement_text[r]) # "" /\ cell[r] = {}}

C37_BatchIsEligibleSet ==
    /\ (NothingWrittenYet /\ epc \in {"pass1", "done"}) => rows_batch[1] = EligibleNow
    /\ rows_batch[2] \subseteq rows_batch[1]
    /\ \A r \in Rows \ rows_batch[1] :
          sheet_calls[r] = NoCalls

\* A write call is issued on the cell of row r, or the cell changes.
WriteOn(r) ==
    \/ sheet_calls'[r].update_cell > sheet_calls[r].update_cell
    \/ cell'[r] # cell[r]

C37_WritesInsideBatch ==
    /\ requirement_text' = requirement_text
    /\ epc \notin {"done", "aborted"} => rows_batch'[1] = rows_batch[1]
    /\ \A r \in Rows :
          WriteOn(r) =>
              /\ epc \in {"pass1", "pass2"}
              /\ r \in rows_batch[PassOf(epc)]
              /\ r \in rows_batch[1]

C37_OnlyEligibleRowsWritten ==
    [](C37_BatchIsEligibleSet) /\ [][C37_WritesInsideBatch]_vars

\* The run has ended, one row was written twice, and the other row, which
\* held a verdict at the start, still holds it.
C37_Witness ==
    /\ epc = "done"
    /\ \E r \in Rows, q \in Rows :
          /\ "[REVIEWED]" \in cell[r]
          /\ sheet_calls[r].update_cell = 2
          /\ Strip(requirement_text[q]) # ""
          /\ q \notin rows_batch[1]
          /\ cell[q] = {"compliant", "doc", "earlier"}

\* ------------------------------  C38  -----------------------------------
\* C38: when every write of a run succeeded, at its end every row that was
\* eligible at its start holds a non-empty verdict, so the run started next
\* finds no row to process and issues no generation call and no write.
EveryWriteSucceeded ==
    abort = NoAbort /\ \A r \in Rows : OwnWritesSucceed(r)

C38_EveryEligibleRowAnswered ==
    (RunEnded /\ EveryWriteSucceeded) =>
        /\ \A r \in rows_batch[1] : Strip(VerdictText(cell[r])) # ""
        /\ RowsToProcessNow(requirement_text, cell) = {}

C38_NextRunDoesNothing ==
    (RunEnded /\ EveryWriteSucceeded) =>
        /\ epc' = "done"
        /\ rows_batch'[1] = {}
        /\ \A p \in Passes, r \in Rows : fut'[p][r] = NoFuture
        /\ \A r \in Rows : sheet_calls'[r] = NoCalls
        /\ cell' = cell

C38_SecondRunFindsNothing ==
    [](C38_EveryEligibleRowAnswered) /\ [][C38_NextRunDoesNothing]_vars

\* The second run has returned with nothing to process after a run that
\* reviewed one row and gave the other an error verdict.
C38_Witness ==
    /\ epc = "done"
    /\ rows_batch[1] = {}
    /\ NothingWrittenYet
    /\ \A r \in Rows : Strip(requirement_text[r]) # ""
    /\ \E r \in Rows, q \in Rows :
          "[REVIEWED]" \in cell[r] /\ cell[q] = ErrorValue

\* ------------------------------  C39  -----------------------------------
\* C39: a row is dispatched to the generation call at most once in pass 1
\* and at most once in pass 2; the result of a pass-2 call is never
\* escalated again, and a row whose pass-1 handling ended in an error
\* verdict is not dispatched in pass 2.
Dispatched(f) == f.st \in {"running", "returned", "raised"}

C39_ErrorRowsNotEscalated ==
    /\ \A r \in Rows :
          (r \in handled[1] /\ r \notin handled[2] /\ cell[r] = ErrorValue) =>
              /\ r \notin needs_second_pass
              /\ r \notin rows_batch[2]
              /\ fut[2][r] = NoFuture
    /\ \A r \in Rows :
          fut[2][r] # NoFuture => (r \in handled[1] /\ Escalated(r))

C39_NoThirdDispatch ==
    /\ \A p \in Passes, r \in Rows :
          (Dispatched(fut[p][r]) /\ epc \notin {"done", "aborted"}) =>
              /\ Dispatched(fut'[p][r])
              /\ Completed(fut[p][r]) => fut'[p][r] = fut[p][r]
    /\ epc \in {"pass2", "unwinding2"} =>
          /\ needs_second_pass' = needs_second_pass
          /\ rows_batch' = rows_batch
          /\ epc' \in {"pass2", "unwinding2", "done", "aborted"}

C39_AtMostTwoDispatches ==
    [](C39_ErrorRowsNotEscalated) /\ [][C39_NoThirdDispatch]_vars

\* The run has ended: one row was reviewed and its pass-2 answer held an
\* escalation keyword again; the other row's pass-1 answer was flagged but
\* its write failed, it holds the error verdict and was not in pass 2.
C39_Witness ==
    /\ epc = "done"
    /\ \E r \in Rows, q \in Rows :
          /\ fut[2][r].st = "returned"
          /\ fut[2][r].reply = {"partially", "doc"}
          /\ "[REVIEWED]" \in cell[r]
          /\ Escalated(q)
          /\ sheet_calls[q].update_cell = 2
          /\ cell[q] = ErrorValue
          /\ fut[2][q] = NoFuture

---------------------------------------------------------------------------
\* ========================  Activation poller  ===========================

\* What genai.get_file can give for a handle, lines 520-544: a state name,
\* or an exception.
FileStates == {"ACTIVE", "FAILED", "PROCESSING", "raised"}

WInit ==
    /\ poll_state = [h \in PollHandles |-> NoPollState]
    /\ wpc = "entry"
    /\ uploaded_files \in SUBSET PollHandles
    /\ pending_files = {}
    /\ active_files = {}
    /\ failed_files = {}
    /\ files_to_check = {}
    /\ timed_out = FALSE
    /\ observed = [h \in PollHandles |-> {}]
    /\ pending_at_deadline = {}

\* Wall-clock time reaches start_time + timeout_seconds; it can do so at
\* any point of the call.
DeadlineElapses ==
    /\ wpc \in {"top", "checking"}
    /\ ~timed_out
    /\ timed_out' = TRUE
    /\ pending_at_deadline' = pending_files
    /\ UNCHANGED <<wpc, uploaded_files, pending_files, active_files,
                   failed_files, files_to_check, observed, poll_state>>
    /\ UNCHANGED notW

\* Lines 484-500: an empty input returns []; otherwise every handle is
\* pending.
WaitEnter ==
    /\ wpc = "entry"
    /\ IF uploaded_files = {}
       THEN /\ wpc' = "returned"
            /\ UNCHANGED <<pending_files, poll_state>>
       ELSE /\ wpc' = "top"
            /\ pending_files' = uploaded_files
            /\ poll_state' = [h \in PollHandles |->
                   IF h \in uploaded_files
                   THEN [poll_interval |-> initial_poll,
                         next_check |-> TimePlus(initial_poll)]
                   ELSE NoPollState]
    /\ UNCHANGED <<uploaded_files, active_files, failed_files, files_to_check,
                   timed_out, observed, pending_at_deadline>>
    /\ UNCHANGED notW

\* The loop test without the clock: `while pending_files`.
KeepsPollingWhilePending(pending, late) == pending # {}

\* `while pending_files and elapsed < timeout_seconds`, line 504.
KeepsPolling(pending, late) == pending # {} /\ ~late

\* Lines 504-515: the loop test, then the handles whose next_check has come
\* are listed (none of them: sleep one second and test again).
WaitRound ==
    /\ wpc = "top"
    /\ KeepsPolling(pending_files, timed_out)
    /\ \E due \in (SUBSET pending_files) \ {{}} :
         files_to_check' = due
    /\ wpc' = "checking"
    /\ UNCHANGED <<uploaded_files, pending_files, active_files, failed_files,
                   timed_out, observed, pending_at_deadline, poll_state>>
    /\ UNCHANGED notW

\* min(state["poll_interval"] * 1.5, max_poll) without the min.
BackoffLiveUncapped(interval) == (interval * 3) \div 2

\* Line 538: min(state["poll_interval"] * 1.5, max_poll).
BackoffLive(interval) == Min((interval * 3) \div 2, max_poll)

\* Line 543: min(state["poll_interval"] * 2, max_poll).
BackoffError(interval) == Min(interval * 2, max_poll)

\* One interval kept for the whole batch: every pending handle backs off.
BackoffEveryPending(ps, h, st) ==
    [g \in PollHandles |->
        IF ps[g] = NoPollState THEN NoPollState
        ELSE LET new == IF st = "raised" THEN BackoffError(ps[g].poll_interval)
                        ELSE BackoffLive(ps[g].poll_interval)
             IN  [poll_interval |-> new, next_check |-> TimePlus(new)]]

\* Lines 536-544: `state` is pending_files[name]; its poll_interval grows
\* and its next_check is set from it.
Backoff(ps, h, st) ==
    LET new == IF st = "raised" THEN BackoffError(ps[h].poll_interval)
               ELSE BackoffLive(ps[h].poll_interval)
    IN  [ps EXCEPT ![h] = [poll_interval |-> new, next_check |-> TimePlus(new)]]

\* The entry is left where it is.
DelNothing(pending, name) == pending

\* `del pending_files[name]`, lines 528 and 534.
DelPending(pending, name) == pending \ {name}

\* Lines 517-544: the status of one listed handle is queried.
WaitCheck ==
    /\ wpc = "checking"
    /\ \E h \in files_to_check, st \in FileStates :
         /\ files_to_check' = files_to_check \ {h}
         /\ wpc' = IF files_to_check' = {} THEN "top" ELSE "checking"
         /\ observed' = [observed EXCEPT ![h] = @ \cup {st}]
         /\ CASE st = "ACTIVE" ->
                   /\ active_files' = active_files \cup {h}
                   /\ pending_files' = DelPending(pending_files, h)
                   /\ poll_state' = [poll_state EXCEPT ![h] = NoPollState]
                   /\ UNCHANGED failed_files
              [] st = "FAILED" ->
                   /\ failed_files' = failed_files \cup {h}
                   /\ pending_files' = DelPending(pending_files, h)
                   /\ poll_state' = [poll_state EXCEPT ![h] = NoPollState]
                   /\ UNCHANGED active_files
              [] OTHER ->
                   /\ poll_state' = Backoff(poll_state, h, st)
                   /\ UNCHANGED <<active_files, failed_files, pending_files>>
    /\ UNCHANGED <<uploaded_files, timed_out, pending_at_deadline>>
    /\ UNCHANGED notW

\* Lines 546-566: the loop has ended and active_files is returned.
WaitReturn ==
    /\ wpc = "top"
    /\ ~KeepsPolling(pending_files, timed_out)
    /\ wpc' = "returned"
    /\ UNCHANGED <<uploaded_files, pending_files, active_files, failed_files,
                   files_to_check, timed_out, observed, pending_at_deadline,
                   poll_state>>
    /\ UNCHANGED notW

WNext ==
    \/ DeadlineElapses
    \/ WaitEnter
    \/ WaitRound
    \/ WaitCheck
    \/ WaitReturn

WaitInit == WInit /\ UIdle /\ rt = RIdle /\ CIdle /\ EIdle /\ FIdle /\ PIdle
    /\ XIdle

WaitSpec == WaitInit /\ [][WNext]_vars

\* Time advances (an idle round sleeps one second, a query takes time and
\* pushes next_check at least initial_poll ahead), so the deadline comes;
\* every status query returns or raises, and the loop is sequential.
WaitLiveSpec ==
    /\ WaitSpec
    /\ WF_vars(DeadlineElapses)
    /\ WF_vars(WaitEnter \/ WaitRound \/ WaitCheck \/ WaitReturn)

\* ------------------------------  C15  -----------------------------------
\* C15: _wait_for_files_active returns only handles a status query showed
\* ACTIVE; a handle seen FAILED, or still pending when the timeout elapses,
\* is never in the result, and no handle that was pending at the moment the
\* timeout elapsed is added to the result afterwards.
C15_OnlyObservedActive ==
    /\ \A h \in active_files : "ACTIVE" \in observed[h]
    /\ active_files \cap failed_files = {}
    /\ active_files \cap pending_files = {}

C15_NothingAddedAfterDeadline == active_files \cap pending_at_deadline = {}

C15_OnlyActiveAndNoneAfterDeadline ==
    C15_OnlyObservedActive /\ C15_NothingAddedAfterDeadline

\* The handle whose status query this step made and handled, if any.
Checked(h) ==
    /\ wpc = "checking"
    /\ h \in files_to_check
    /\ files_to_check' = files_to_check \ {h}

\* ------------------------------  C24  -----------------------------------
\* C24: a check that observes a live non-terminal state multiplies the
\* handle's poll interval by 1.5 and a check whose query raises multiplies
\* it by 2, the result capped at max_poll; the poll interval of a pending
\* handle is never above max_poll and never decreases from one check to the
\* next.
C24_WithinCap ==
    \A h \in pending_files :
        /\ poll_state[h].poll_interval >= initial_poll
        /\ poll_state[h].poll_interval <= max_poll

C24_GrowthOfChecked(h) ==
    LET old == poll_state[h].poll_interval
        new == poll_state'[h].poll_interval
    IN  (Checked(h) /\ h \in pending_files') =>
            /\ new >= old
            /\ new \in {Min((3 * old) \div 2, max_poll), Min(2 * old, max_poll)}
            /\ "raised" \notin observed'[h] => new = Min((3 * old) \div 2, max_poll)
            /\ "PROCESSING" \notin observed'[h] => new = Min(2 * old, max_poll)

C24_BackoffCappedAndMonotone ==
    [](C24_WithinCap) /\ [][\A h \in PollHandles : C24_GrowthOfChecked(h)]_vars

\* A handle that has only been seen PROCESSING has reached the cap.
C24_Witness ==
    \E h \in pending_files :
        /\ observed[h] = {"PROCESSING"}
        /\ poll_state[h].poll_interval = max_poll

\* ------------------------------  C25  -----------------------------------
\* C25: a status check of one handle changes only that handle's state: the
\* poll interval, the next check time and the pending, active or failed
\* membership of every other handle stay as they were.
C25_OthersUntouched(h) ==
    Checked(h) =>
        \A g \in PollHandles \ {h} :
            /\ poll_state'[g] = poll_state[g]
            /\ (g \in pending_files') = (g \in pending_files)
            /\ (g \in active_files') = (g \in active_files)
            /\ (g \in failed_files') = (g \in failed_files)

C25_CheckTouchesOneHandle ==
    [][\A h \in PollHandles : C25_OthersUntouched(h)]_vars

\* Two pending handles, one of which has backed off and the other not.
C25_Witness ==
    \E h \in pending_files, g \in pending_files :
        /\ poll_state[h].poll_interval > initial_poll
        /\ poll_state[g].poll_interval = initial_poll
        /\ observed[g] = {}

\* ------------------------------  C26  -----------------------------------
\* C26: _wait_for_files_active returns for every input, also when a handle
\* never leaves PROCESSING or every query raises; the loop ends with no
\* handle pending or with the global timeout elapsed.
C26_EndsDrainedOrTimedOut ==
    (wpc = "returned" /\ uploaded_files # {}) =>
        (pending_files = {} \/ timed_out)

C26_PollerReturns ==
    <>(wpc = "returned") /\ [](C26_EndsDrainedOrTimedOut)

\* The call returned on the timeout with a handle that never left PROCESSING
\* and one whose every query raised.
C26_Witness ==
    /\ wpc = "returned"
    /\ timed_out
    /\ \E h \in pending_files, g \in pending_files :
          /\ observed[h] = {"PROCESSING"}
          /\ observed[g] = {"raised"}

\* ------------------------------  C36  -----------------------------------
\* C36: once the poller has built its collections, each distinct input
\* handle is in exactly one of pending, active and failed; a handle that
\* has reached ACTIVE or FAILED stays there, is never listed for a query
\* again and never returns to pending.
Terminal(h) == h \in active_files \cup failed_files

InExactlyOne(h) ==
    Cardinality({c \in {"pending", "active", "failed"} :
        \/ c = "pending" /\ h \in pending_files
        \/ c = "active" /\ h \in active_files
        \/ c = "failed" /\ h \in failed_files}) = 1

C36_Partition ==
    (wpc \in {"top", "checking"} \/ (wpc = "returned" /\ uploaded_files # {})) =>
        /\ \A h \in uploaded_files : InExactlyOne(h)
        /\ pending_files \cup active_files \cup failed_files = uploaded_files
        /\ \A h \in uploaded_files : Terminal(h) => h \notin files_to_check

C36_TerminalStays(h) ==
    Terminal(h) =>
        /\ ~Checked(h)
        /\ observed'[h] = observed[h]
        /\ h \notin pending_files'
        /\ (h \in active_files') = (h \in active_files)
        /\ (h \in failed_files') = (h \in failed_files)

C36_HandlesPartitioned ==
    [](C36_Partition) /\ [][\A h \in PollHandles : C36_TerminalStays(h)]_vars

\* A later round of queries lists the pending handle alone, the other one
\* having been seen FAILED.
C36_Witness ==
    \E h \in failed_files, g \in pending_files :
        /\ wpc = "checking"
        /\ files_to_check = {g}
        /\ "PROCESSING" \in observed[g]
        /\ observed[h] = {"raised", "FAILED"}

---------------------------------------------------------------------------
\* ======================  Source preparation  ============================

\* An element of the list prepare_gemini_files returns: the pair
\* (file_obj, display_name) of an uploaded artifact, or the path of a
\* temporary file as a string.
Artifact(h) == <<"artifact", h>>
TempPath(url) == <<"path", url>>

SourceModes == {"both", "website", "docs"}
UrlLists == {{}, {"https://site/"}}

PInit ==
    /\ SOURCES \in SourceModes
    /\ WEBSITE_URLS \in UrlLists
    /\ docs_found \in BOOLEAN
    /\ ppc = "start"
    /\ all_files = {}
    /\ website_files = {}

\* Lines 765-818: in the modes with local documents the paths are
\* collected (none: return []) and _upload_pdfs returns the handles it
\* uploaded or found cached; _wait_for_files_active is then called.
PrepareDocs ==
    /\ ppc = "start"
    /\ IF SOURCES \in {"both", "docs"}
       THEN IF ~docs_found
            THEN /\ ppc' = "returned"
                 /\ UNCHANGED <<wpc, uploaded_files>>
            ELSE /\ \E up \in SUBSET PollHandles : uploaded_files' = up
                 /\ wpc' = "entry"
                 /\ ppc' = "waiting"
       ELSE /\ ppc' = "website"
            /\ UNCHANGED <<wpc, uploaded_files>>
    /\ UNCHANGED <<SOURCES, WEBSITE_URLS, docs_found, all_files, website_files>>
    /\ UNCHANGED <<pending_files, active_files, failed_files, files_to_check,
                   timed_out, observed, pending_at_deadline, poll_state>>
    /\ UNCHANGED notP

\* Lines 819-826: all_files.extend(ready).
PrepareReady ==
    /\ ppc = "waiting"
    /\ wpc = "returned"
    /\ all_files' = all_files \cup {Artifact(h) : h \in active_files}
    /\ ppc' = "website"
    /\ UNCHANGED <<SOURCES, WEBSITE_URLS, docs_found, website_files>>
    /\ UNCHANGED wvars
    /\ UNCHANGED notP

\* Lines 849-880: fetch_website_content is called for each URL and gives a
\* temporary file path or None; the paths are put in front of, or in place
\* of, the documents.
CombineFiles(mode, web, files) ==
    IF mode = "both" THEN web \cup files
    ELSE IF mode = "website" THEN web
    ELSE files

PrepareWebsite ==
    /\ ppc = "website"
    /\ IF SOURCES \in {"both", "website"} /\ WEBSITE_URLS # {}
       THEN \E fetched \in SUBSET WEBSITE_URLS :
              /\ website_files' = {TempPath(u) : u \in fetched}
              /\ all_files' = CombineFiles(SOURCES, website_files', all_files)
       ELSE UNCHANGED <<website_files, all_files>>
    /\ ppc' = "returned"
    /\ UNCHANGED <<SOURCES, WEBSITE_URLS, docs_found>>
    /\ UNCHANGED wvars
    /\ UNCHANGED notP

PNext ==
    \/ PrepareDocs
    \/ PrepareReady
    \/ PrepareWebsite
    \/ DeadlineElapses
    \/ WaitEnter
    \/ WaitRound
    \/ WaitCheck
    \/ WaitReturn

PrepareInit == PInit /\ WIdle /\ UIdle /\ rt = RIdle /\ CIdle /\ EIdle /\ FIdle
    /\ XIdle

PrepareSpec == PrepareInit /\ [][PNext]_vars

\* ------------------------------  C17  -----------------------------------
\* C17: in each source mode, every element of the list
\* prepare_gemini_files returns to the dispatcher is an uploaded artifact
\* that a status query of the activation poller showed ACTIVE.
ConfirmedActive(item) ==
    /\ item[1] = "artifact"
    /\ item[2] \in uploaded_files
    /\ "ACTIVE" \in observed[item[2]]

C17_OnlyConfirmedArtifacts ==
    ppc = "returned" => \A item \in all_files : ConfirmedActive(item)

\* The part that holds: with local documents only.
C17_DocsModeOnlyConfirmed ==
    (ppc = "returned" /\ SOURCES = "docs") =>
        \A item \in all_files : ConfirmedActive(item)

---------------------------------------------------------------------------
\* ====================  Functions that keep no state  ====================

\* Phrases a raw answer can hold and names an allowed list can hold.
AnswerPhrases == {"compliant", "Doc", "other", "NOT_FOUND", "insufficient information"}
AllowedNames == {"doc", "Policy", ""}

\* A file as _get_file_fingerprint can see it: a name, a modification time,
\* the bytes, and whether open/read succeed.
ByteSeqs == UNION {[1..n -> {0, 1}] : n \in 0..MaxFileLen}
FpFiles == [name : {"a.pdf", "b.pdf"}, mtime : {1, 2}, bytes : ByteSeqs,
            readable : BOOLEAN]

\* Digests hashlib.md5(os.urandom(16)) can give.
RandomDigests == {"r1", "r2"}

\* The loop of lines 249-250: the hasher absorbs the file chunk by chunk
\* until a read returns nothing.
RECURSIVE HashChunks(_, _)
HashChunks(hasher, rest) ==
    IF rest = <<>> THEN hasher
    ELSE LET n == Min(ChunkBytes, Len(rest))
         IN  HashChunks(hasher \o SubSeq(rest, 1, n),
                        SubSeq(rest, n + 1, Len(rest)))

\* The file's name hashed along with its bytes.
FileFingerprintWithName(file, rnd) ==
    IF file.readable
    THEN _get_file_fingerprint(<<file.name>> \o HashChunks(<<>>, file.bytes))
    ELSE <<"md5", rnd>>

\* _get_file_fingerprint(file_path), lines 244-255: the digest of what was
\* absorbed, or the digest of 16 random bytes when open or read raises.
FileFingerprint(file, rnd) ==
    IF file.readable
    THEN _get_file_fingerprint(HashChunks(<<>>, file.bytes))
    ELSE <<"md5", rnd>>

FInit ==
    \/ \E a \in FpFiles, b \in FpFiles :
          /\ a.name = "a.pdf"
          /\ a.mtime = 1
          /\ fn = [op |-> "fingerprint", args |-> <<a, b>>, out |-> <<>>,
                   pc |-> "called"]
    \/ \E stmt \in SUBSET AnswerPhrases, allowed \in SUBSET AllowedNames :
          fn = [op |-> "normalize", args |-> <<stmt, allowed>>, out |-> {},
                pc |-> "called"]
    \/ \E req \in Columns, comp \in Columns :
          fn = [op |-> "rows_to_process", args |-> <<req, comp>>, out |-> {},
                pc |-> "called"]

\* _normalize_compliance_statement(compliance_statement, allowed_doc_names)
\* is applied and returns.
ApplyNormalize ==
    /\ fn.op = "normalize"
    /\ fn.pc = "called"
    /\ fn' = [fn EXCEPT !.out = _normalize_compliance_statement(fn.args[1], fn.args[2]),
                        !.pc = "returned"]
    /\ UNCHANGED notF

\* The two columns were read (lines 1145-1146) and the rows to process are
\* collected.
ApplyRowsToProcess ==
    /\ fn.op = "rows_to_process"
    /\ fn.pc = "called"
    /\ fn' = [fn EXCEPT !.out = rows_to_process(fn.args[1], fn.args[2]),
                        !.pc = "returned"]
    /\ UNCHANGED notF

\* _get_file_fingerprint is called on the next of the two files.
ApplyFingerprint ==
    /\ fn.op = "fingerprint"
    /\ fn.pc = "called"
    /\ \E rnd \in RandomDigests :
         fn' = [fn EXCEPT
                  !.out = Append(@, FileFingerprint(fn.args[Len(fn.out) + 1], rnd)),
                  !.pc = IF Len(fn.out) = 1 THEN "returned" ELSE "called"]
    /\ UNCHANGED notF

FNext ==
    \/ ApplyFingerprint
    \/ ApplyNormalize
    \/ ApplyRowsToProcess

FnInit == FInit /\ UIdle /\ rt = RIdle /\ CIdle /\ EIdle /\ WIdle /\ PIdle
    /\ XIdle

FnSpec == FnInit /\ [][FNext]_vars

\* ------------------------------  C11  -----------------------------------
\* C11: for a non-empty allowed list, an answer that contains none of the
\* allowed names (as a case-insensitive substring) is normalized to exactly
\* 'not_found'; so is an empty answer and an answer that holds one of the
\* not-found phrases.
ContainsNoAllowedName(stmt, allowed) ==
    \A name \in allowed : ~ContainsLower(stmt, Lower(name))

C11_NormalizeToNotFound ==
    (fn.op = "normalize" /\ fn.pc = "returned") =>
        LET stmt == fn.args[1]
            allowed == fn.args[2]
        IN  /\ (allowed # {} /\ ContainsNoAllowedName(stmt, allowed))
                   => fn.out = {"not_found"}
            /\ stmt = {} => fn.out = {"not_found"}
            /\ (\E ind \in not_found_indicators : ContainsLower(stmt, ind))
                   => fn.out = {"not_found"}

C11_Witness ==
    /\ fn.op = "normalize"
    /\ fn.pc = "returned"
    /\ fn.args[1] = {"compliant", "other"}
    /\ fn.args[2] = {"doc", "Policy"}
    /\ fn.out = {"not_found"}

\* ------------------------------  C13  -----------------------------------
\* C13: the rows submitted are exactly the physical rows >= 2 whose
\* requirement cell is non-empty after trimming and whose verdict cell is
\* empty after trimming, also when the two columns were read with
\* different lengths (a cell past the end of a column is empty).
CellAt(col, row) == IF row <= Len(col) THEN col[row] ELSE ""

C13_ExactlyEligibleRows ==
    (fn.op = "rows_to_process" /\ fn.pc = "returned") =>
        \A row \in 1..(MaxColLen + 2) :
            (row \in fn.out) <=>
                /\ row >= 2
                /\ Strip(CellAt(fn.args[1], row)) # ""
                /\ Strip(CellAt(fn.args[2], row)) = ""

C13_Witness ==
    /\ fn.op = "rows_to_process"
    /\ fn.pc = "returned"
    /\ Len(fn.args[1]) = 3
    /\ Len(fn.args[2]) = 2
    /\ fn.args[1][2] = " "
    /\ fn.args[2][2] = ""
    /\ fn.out = {3}

\* ------------------------------  C23  -----------------------------------
\* C23: _get_file_fingerprint is a deterministic function of the file's
\* whole byte content: two calls on readable files with the same bytes give
\* the same value, whatever the name, the modification time and the moment
\* of the call (the size is fixed by the bytes).
C23_FingerprintOfContentOnly ==
    (fn.op = "fingerprint" /\ fn.pc = "returned"
        /\ fn.args[1].readable /\ fn.args[2].readable
        /\ fn.args[1].bytes = fn.args[2].bytes) =>
        fn.out[1] = fn.out[2]

C23_Witness ==
    /\ fn.op = "fingerprint"
    /\ fn.pc = "returned"
    /\ fn.args[1].readable /\ fn.args[2].readable
    /\ fn.args[1].bytes = fn.args[2].bytes
    /\ Len(fn.args[1].bytes) > ChunkBytes
    /\ fn.args[1].name # fn.args[2].name
    /\ fn.args[1].mtime # fn.args[2].mtime
    /\ fn.out[1] = fn.out[2]

---------------------------------------------------------------------------
\* ==================  Worker pools of the two dispatchers  ================
\* One `with ThreadPoolExecutor(max_workers=...)` block, at line 384
\* (_upload_pdfs) or at line 1330 (process_batch), with the tasks reduced to
\* their life cycle: submitted, taken by a pool thread, finished.

\* Values tried for GEMINI_MAX_WORKERS in this stage.
PoolWorkerChoices == {0, 1, 4, 8}

\* The max_workers each call site gives the executor.
PoolSizeAt(site, mw) ==
    IF site = "upload" THEN UploadMaxWorkers(mw) ELSE EvalPoolSize(mw)

InFlight == {t \in Tasks : executor.st[t] = "running"}

\* An executor is about to be made for n tasks, the other stages idle.
PoolInit ==
    /\ \E site \in {"upload", "eval"}, mw \in PoolWorkerChoices, n \in 1..NumTasks :
          executor = [site |-> site, mw |-> mw, n |-> n, submitted |-> 0,
                      st |-> [t \in Tasks |-> "none"], pc |-> "new"]
    /\ UIdle /\ rt = RIdle /\ CIdle /\ EIdle /\ FIdle /\ WIdle /\ PIdle

\* ThreadPoolExecutor(max_workers=k) raises ValueError when k <= 0.
ExecutorNew ==
    /\ executor.pc = "new"
    /\ executor' = [executor EXCEPT !.pc =
           IF PoolSizeAt(executor.site, executor.mw) <= 0 THEN "raised" ELSE "open"]
    /\ UNCHANGED notX

\* executor.submit puts the next task on the executor's queue.
ExecutorSubmit ==
    /\ executor.pc = "open"
    /\ executor.submitted < executor.n
    /\ executor' = [executor EXCEPT !.submitted = @ + 1,
                                    !.st[executor.submitted + 1] = "queued"]
    /\ UNCHANGED notX

\* A pool thread takes the oldest queued task; the executor has at most
\* max_workers threads and each runs one task at a time.
WorkerTake(t) ==
    /\ executor.pc = "open"
    /\ executor.st[t] = "queued"
    /\ \A u \in 1..(t - 1) : executor.st[u] # "queued"
    /\ Cardinality(InFlight) < PoolSizeAt(executor.site, executor.mw)
    /\ executor' = [executor EXCEPT !.st[t] = "running"]
    /\ UNCHANGED notX

\* The task (_upload_single_file or _worker_generate) returns or raises.
WorkerFinish(t) ==
    /\ executor.st[t] = "running"
    /\ executor' = [executor EXCEPT !.st[t] = "done"]
    /\ UNCHANGED notX

\* Leaving the with block: shutdown(wait=True) returns when every task is done.
ExecutorExit ==
    /\ executor.pc = "open"
    /\ executor.submitted = executor.n
    /\ \A t \in 1..executor.n : executor.st[t] = "done"
    /\ executor' = [executor EXCEPT !.pc = "closed"]
    /\ UNCHANGED notX

XNext ==
    \/ ExecutorNew
    \/ ExecutorSubmit
    \/ \E t \in Tasks : WorkerTake(t)
    \/ \E t \in Tasks : WorkerFinish(t)
    \/ ExecutorExit

PoolSpec == PoolInit /\ [][XNext]_vars

\* ------------------------------  C21  -----------------------------------
\* C21: in every reachable state at most 4 uploads are in flight, whatever
\* the global worker count is set to, and at most max(1, worker count)
\* generation calls are in flight in the evaluation.
C21_InFlightBounded ==
    /\ executor.site = "upload" => Cardinality(InFlight) <= 4
    /\ executor.site = "eval" =>
           Cardinality(InFlight) <= Max(1, executor.mw)

\* Four uploads in flight and a fifth waiting, with the worker count at 8.
C21_Witness ==
    /\ executor.site = "upload"
    /\ executor.mw = 8
    /\ Cardinality(InFlight) = 4
    /\ \E t \in Tasks : executor.st[t] = "queued"

=============================================================================
